---- MODULE Spec2Model ----
(***************************************************************************)
(* CropSense (LSTM_Web): the prediction-orchestration and caching core.    *)
(*                                                                         *)
(*   InMemoryCache, cacheHelpers      src/components/dashboard/            *)
(*                                    weather-widget.tsx (cache-manager)   *)
(*   predict*/prepare*                src/lib/ml-integration.ts            *)
(*   soil route, weather route        unnamed/part_000                     *)
(*   NPKDataSimulator, generateSoilData   unnamed/part_002                 *)
(*                                                                         *)
(* Time is counted in units of 5 minutes (300000 ms): CACHE_TTL.WEATHER   *)
(* is 2 units and CACHE_TTL.SOIL 6 units; the sweep timer fires at any    *)
(* time.  Every Math.random() of one step draws the same value.           *)
(* Numbers of the domain (pH, nutrients, temperature, confidence) are      *)
(* integers in units of 1/10000, so 7.2 is 72000 and 0.6 is 6000.          *)
(***************************************************************************)
EXTENDS Integers, Sequences, FiniteSets, TLC

VARIABLES
    now,              \* Date.now(), in units of 5 minutes
    cache,            \* InMemoryCache.cache: the Map, a function on the keys present
    cleanupInterval,  \* InMemoryCache.cleanupInterval: TRUE when it holds a timer
    timers,           \* the interval timers the runtime holds for the cache
    lastOp,           \* the cache call made by the last step and what it returned
    latest,           \* ghost: per key, the entry written by the latest set(key, ..)
    prepPc,           \* a pure function applied directly: "input", then what was applied
    prepIn,           \* the argument handed to it (a history, or values for the rules)
    prepOut,          \* what it returned
    pc,               \* per caller: where its handler (or direct gateway call) stands
    loc,              \* per caller: soilData.current / currentData, null before it exists
    mlInput,          \* per caller: the inputData array handed to predict*Conditions
    sent,             \* per caller: the requests made to the inference endpoint so far
    done,             \* ghost: the call that returned in the last step, null if none did
    faultsOn          \* whether steps of the handlers may throw on their own

cacheVars == <<now, cache, cleanupInterval, timers, lastOp, latest>>
prepVars == <<prepPc, prepIn, prepOut>>
slotVars == <<pc, loc, mlInput, sent, faultsOn>>
vars == <<cacheVars, prepVars, slotVars, done>>

(***************************************************************************)
(* Bounds of the model.                                                    *)
(***************************************************************************)
MaxTime == 7
MaxTtl == 2
MaxCacheTime == 4
MaxHistLen == 26
MaxReq == 2
MaxInputLen == 97

(***************************************************************************)
(* A nullable value: null is the empty sequence, a value v is <<v>>.       *)
(***************************************************************************)
Null == <<>>
Some(v) == <<v>>

(***************************************************************************)
(* Keys and TTLs (CACHE_KEYS, CACHE_TTL).                                  *)
(***************************************************************************)
WEATHER_DATA == "weather:current"
SOIL_DATA == "soil:current"
CacheKeys == {WEATHER_DATA, SOIL_DATA}
CACHE_TTL_WEATHER == 2
CACHE_TTL_SOIL == 6

(***************************************************************************)
(* InMemoryCache.                                                          *)
(***************************************************************************)
\* The Map after this.cache.delete(key).
MapDelete(c, k) == [x \in (DOMAIN c) \ {k} |-> c[x]]

\* The Map after this.cache.set(key, entry).
MapSet(c, k, e) == [x \in (DOMAIN c) \cup {k} |-> IF x = k THEN e ELSE c[x]]

EmptyMap == [x \in {} |-> Null]

\* Mutant of IsExpired: an entry exactly ttl old counts as expired.
IsExpiredAtTtl(entry, t) == (t - entry.timestamp) >= entry.ttl

\* const isExpired = (now - entry.timestamp) > entry.ttl
IsExpired(entry, t) == (t - entry.timestamp) > entry.ttl

\* set(key, data, ttlMs): the entry written and the Map after it.
NewEntry(data, t, ttlMs) == [data |-> data, timestamp |-> t, ttl |-> ttlMs]

\* Mutant of CacheSet: an overwrite keeps the timestamp of the entry it replaces.
CacheSetKeepTimestamp(c, k, data, t, ttlMs) ==
    MapSet(c, k, NewEntry(data, IF k \in DOMAIN c THEN c[k].timestamp ELSE t, ttlMs))

\* Mutant of CacheSet: the first writer wins, a key already present is left alone.
CacheSetIfAbsent(c, k, data, t, ttlMs) ==
    IF k \in DOMAIN c THEN c ELSE MapSet(c, k, NewEntry(data, t, ttlMs))

CacheSet(c, k, data, t, ttlMs) == MapSet(c, k, NewEntry(data, t, ttlMs))

\* get(key): what it returns.
CacheGetResult(c, k, t) ==
    IF k \notin DOMAIN c THEN Null
    ELSE IF IsExpired(c[k], t) THEN Null
    ELSE Some(c[k].data)

\* Mutant of CacheGetStore: a read of a valid entry restamps it (sliding expiry).
CacheGetStoreRefresh(c, k, t) ==
    IF k \notin DOMAIN c THEN c
    ELSE IF IsExpired(c[k], t) THEN MapDelete(c, k)
    ELSE MapSet(c, k, [c[k] EXCEPT !.timestamp = t])

\* Mutant of CacheGetStore: finding the entry expired, get sweeps the whole Map.
CacheGetStoreSweep(c, k, t) ==
    IF k \notin DOMAIN c THEN c
    ELSE IF IsExpired(c[k], t) THEN [x \in {y \in DOMAIN c : ~IsExpired(c[y], t)} |-> c[x]]
    ELSE c

\* get(key): the Map after it (an expired entry is deleted).
CacheGetStore(c, k, t) ==
    IF k \notin DOMAIN c THEN c
    ELSE IF IsExpired(c[k], t) THEN MapDelete(c, k)
    ELSE c

\* Mutant of CacheHas: an existence check on the Map, without the expiry test.
CacheHasExistence(c, k, t) == k \in DOMAIN c

\* has(key): return this.get(key) !== null
CacheHas(c, k, t) == CacheGetResult(c, k, t) # Null

\* Mutant of CacheCleanupStore: the sweep also removes entries exactly ttl old.
CacheCleanupStoreAtTtl(c, t) ==
    [x \in {k \in DOMAIN c : (t - c[k].timestamp) < c[k].ttl} |-> c[x]]

\* cleanup(): the Map after it and the number of entries it removed.
CacheCleanupStore(c, t) ==
    [x \in {k \in DOMAIN c : ~IsExpired(c[k], t)} |-> c[x]]

CacheCleanupCount(c, t) == Cardinality({k \in DOMAIN c : IsExpired(c[k], t)})

(***************************************************************************)
(* The cache driven directly: any sequence of calls and clock advances.    *)
(***************************************************************************)
CacheValues == {"v1", "v2"}
Ttls == 0 .. MaxTtl

NoOp == [op |-> "none", key |-> "", ret |-> Null]

\* startCleanupInterval(): clearInterval of the timer held, then setInterval.
\* Given whether a timer is held and the timers of the runtime, the timers after it.
StartCleanupInterval(held, n) == (IF held THEN n - 1 ELSE n) + 1

\* Mutant of StopCleanupTimers: the handle is dropped without clearInterval.
StopCleanupTimersLeak(held, n) == n

\* stopCleanup(): clearInterval of the timer held, if any.
StopCleanupTimers(held, n) == IF held THEN n - 1 ELSE n

\* The constructor calls startCleanupInterval() on the fresh fields.
CacheInit ==
    /\ now = 0
    /\ cache = EmptyMap
    /\ cleanupInterval = TRUE
    /\ timers = StartCleanupInterval(FALSE, 0)
    /\ lastOp = NoOp
    /\ latest = EmptyMap

\* Date.now() advances while requests are served.
Tick ==
    /\ now < MaxTime
    /\ now' = now + 1
    /\ UNCHANGED <<cache, cleanupInterval, timers, lastOp, latest, prepVars, slotVars>>
    /\ done' = Null

\* The clock of the cache driven directly.
CacheTick ==
    /\ now < MaxCacheTime
    /\ now' = now + 1
    /\ lastOp' = [op |-> "tick", key |-> "", ret |-> Null]
    /\ UNCHANGED <<cache, cleanupInterval, timers, latest, prepVars, slotVars>>
    /\ done' = Null

DoSet(k, v, ttlMs) ==
    /\ cache' = CacheSet(cache, k, v, now, ttlMs)
    /\ latest' = MapSet(latest, k, NewEntry(v, now, ttlMs))
    /\ lastOp' = [op |-> "set", key |-> k, ret |-> Null, data |-> v, ttl |-> ttlMs,
                  replaced |-> IF k \in DOMAIN cache THEN Some(cache[k]) ELSE Null]
    /\ UNCHANGED <<now, cleanupInterval, timers, prepVars, slotVars>>
    /\ done' = Null

DoGet(k) ==
    /\ cache' = CacheGetStore(cache, k, now)
    /\ lastOp' = [op |-> "get", key |-> k, ret |-> CacheGetResult(cache, k, now)]
    /\ UNCHANGED <<now, cleanupInterval, timers, latest, prepVars, slotVars>>
    /\ done' = Null

DoHas(k) ==
    /\ cache' = CacheGetStore(cache, k, now)
    /\ lastOp' = [op |-> "has", key |-> k, ret |-> CacheHas(cache, k, now),
                  present |-> k \in DOMAIN cache]
    /\ UNCHANGED <<now, cleanupInterval, timers, latest, prepVars, slotVars>>
    /\ done' = Null

DoDelete(k) ==
    /\ cache' = MapDelete(cache, k)
    /\ lastOp' = [op |-> "delete", key |-> k, ret |-> (k \in DOMAIN cache)]
    /\ UNCHANGED <<now, cleanupInterval, timers, latest, prepVars, slotVars>>
    /\ done' = Null

DoClear ==
    /\ cache' = EmptyMap
    /\ lastOp' = [op |-> "clear", key |-> "", ret |-> Null]
    /\ UNCHANGED <<now, cleanupInterval, timers, latest, prepVars, slotVars>>
    /\ done' = Null

\* cleanup(), called by the interval timer (byTimer) or directly.
Cleanup(byTimer) ==
    /\ cache' = CacheCleanupStore(cache, now)
    /\ lastOp' = [op |-> "cleanup", key |-> "", ret |-> CacheCleanupCount(cache, now),
                  timer |-> byTimer]
    /\ UNCHANGED <<now, cleanupInterval, timers, latest, prepVars, slotVars>>
    /\ done' = Null

DoCleanup == Cleanup(FALSE)

\* The callback of setInterval: it runs while the runtime holds a timer.
Sweep ==
    /\ timers > 0
    /\ Cleanup(TRUE)

StopCleanup ==
    /\ timers' = StopCleanupTimers(cleanupInterval, timers)
    /\ cleanupInterval' = FALSE
    /\ lastOp' = [op |-> "stopCleanup", key |-> "", ret |-> Null, held |-> cleanupInterval]
    /\ UNCHANGED <<now, cache, latest, prepVars, slotVars>>
    /\ done' = Null

(***************************************************************************)
(* ml-integration.ts: preparation of the model input.                      *)
(*                                                                         *)
(* A field of a reading is a JavaScript value: [t |-> "num", v |-> x] a    *)
(* number, "numstr" a numeric string, "undefined" a missing field, "null", *)
(* and "text" a string that is no number.  v is 0 where it has no meaning. *)
(***************************************************************************)
TIMESTEPS == 24
WEATHER_INPUT_LEN == 48
SOIL_INPUT_LEN == 96
DEFAULT_TEMPERATURE == 250000
DEFAULT_HUMIDITY == 700000
DEFAULT_PH == 70000
DEFAULT_NITROGEN == 450000
DEFAULT_PHOSPHORUS == 250000
DEFAULT_POTASSIUM == 350000

Num(x) == [t |-> "num", v |-> x]

\* Number(value) is a number other than 0 and NaN.
IsTruthyNumber(x) == x.t \in {"num", "numstr"} /\ x.v # 0

\* Number(value) || default
NumberOr(x, default) == IF IsTruthyNumber(x) THEN x.v ELSE default

\* Mutant of SliceLast: the first n elements, history.slice(0, n).
SliceFirst(s, n) == IF Len(s) <= n THEN s ELSE SubSeq(s, 1, n)

\* array.slice(-n)
SliceLast(s, n) == IF Len(s) <= n THEN s ELSE SubSeq(s, Len(s) - n + 1, Len(s))

\* array.slice(0, n)
SliceTo(s, n) == IF Len(s) <= n THEN s ELSE SubSeq(s, 1, n)

\* timesteps.forEach(reading => inputData.push(temperature, humidity))
RECURSIVE PushWeatherReadings(_, _)
PushWeatherReadings(inputData, timesteps) ==
    IF timesteps = <<>> THEN inputData
    ELSE PushWeatherReadings(
             inputData \o <<NumberOr(Head(timesteps).temperature, DEFAULT_TEMPERATURE),
                            NumberOr(Head(timesteps).humidity, DEFAULT_HUMIDITY)>>,
             Tail(timesteps))

\* while (inputData.length < 48) inputData.push(25, 70)
RECURSIVE PadWeather(_)
PadWeather(inputData) ==
    IF Len(inputData) < WEATHER_INPUT_LEN
    THEN PadWeather(inputData \o <<DEFAULT_TEMPERATURE, DEFAULT_HUMIDITY>>)
    ELSE inputData

prepareWeatherDataForML(weatherHistory) ==
    SliceTo(PadWeather(PushWeatherReadings(<<>>, SliceLast(weatherHistory, TIMESTEPS))),
            WEATHER_INPUT_LEN)

\* timesteps.forEach(reading => inputData.push(pH, nitrogen, phosphorus, potassium))
RECURSIVE PushSoilReadings(_, _)
PushSoilReadings(inputData, timesteps) ==
    IF timesteps = <<>> THEN inputData
    ELSE PushSoilReadings(
             inputData \o <<NumberOr(Head(timesteps).pH, DEFAULT_PH),
                            NumberOr(Head(timesteps).nitrogen, DEFAULT_NITROGEN),
                            NumberOr(Head(timesteps).phosphorus, DEFAULT_PHOSPHORUS),
                            NumberOr(Head(timesteps).potassium, DEFAULT_POTASSIUM)>>,
             Tail(timesteps))

\* while (inputData.length < 96) inputData.push(7.0, 45, 25, 35)
RECURSIVE PadSoil(_)
PadSoil(inputData) ==
    IF Len(inputData) < SOIL_INPUT_LEN
    THEN PadSoil(inputData \o <<DEFAULT_PH, DEFAULT_NITROGEN, DEFAULT_PHOSPHORUS,
                                 DEFAULT_POTASSIUM>>)
    ELSE inputData

prepareSoilDataForML(soilHistory) ==
    SliceTo(PadSoil(PushSoilReadings(<<>>, SliceLast(soilHistory, TIMESTEPS))),
            SOIL_INPUT_LEN)

(***************************************************************************)
(* prepare*DataForML applied to histories of every length 0..MaxHistLen.   *)
(* Reading i carries values that depend on i, and one field of one reading *)
(* may be irregular (0, missing, null, text, or a numeric string).         *)
(***************************************************************************)
FieldKinds == {"num", "numstr", "undefined", "null", "text"}

\* The value of an irregular field: a number for "num" and "numstr", else nothing.
Irregular(kind, x) == [t |-> kind, v |-> IF kind \in {"num", "numstr"} THEN x ELSE 0]

SoilFields == <<"pH", "nitrogen", "phosphorus", "potassium">>
WeatherFields == <<"temperature", "humidity">>

SoilHistoryOf(n, bad, fld, kind, x) ==
    IF n = 0 THEN <<>> ELSE
    [i \in 1 .. n |->
        [f \in {SoilFields[j] : j \in 1 .. 4} |->
            IF i = bad /\ f = fld THEN Irregular(kind, x)
            ELSE Num(10000 * i + (CHOOSE j \in 1 .. 4 : SoilFields[j] = f))]]

WeatherHistoryOf(n, bad, fld, kind, x) ==
    IF n = 0 THEN <<>> ELSE
    [i \in 1 .. n |->
        [f \in {WeatherFields[j] : j \in 1 .. 2} |->
            IF i = bad /\ f = fld THEN Irregular(kind, x)
            ELSE Num(10000 * i + (CHOOSE j \in 1 .. 2 : WeatherFields[j] = f))]]

PrepHistories ==
    {SoilHistoryOf(n, bad, fld, kind, x) :
        n \in 0 .. MaxHistLen, bad \in {0, 1, 3, MaxHistLen}, fld \in {"pH", "potassium"},
        kind \in FieldKinds, x \in {0, 55000}}
    \cup
    {WeatherHistoryOf(n, bad, fld, kind, x) :
        n \in 0 .. MaxHistLen, bad \in {0, 1, 3, MaxHistLen}, fld \in {"temperature", "humidity"},
        kind \in FieldKinds, x \in {0, 55000}}

IsSoilHistory(h) == IF Len(h) = 0 THEN TRUE ELSE "pH" \in DOMAIN h[1]
IsWeatherHistory(h) == IF Len(h) = 0 THEN TRUE ELSE "temperature" \in DOMAIN h[1]

PrepInit ==
    /\ prepPc = "input"
    /\ prepIn \in PrepHistories
    /\ prepOut = <<>>

PrepIdle ==
    /\ prepPc = "idle"
    /\ prepIn = <<>>
    /\ prepOut = <<>>

ApplyPrepareSoil ==
    /\ prepPc = "input"
    /\ IsSoilHistory(prepIn)
    /\ prepOut' = prepareSoilDataForML(prepIn)
    /\ prepPc' = "soil"
    /\ UNCHANGED <<prepIn, cacheVars, slotVars, done>>

ApplyPrepareWeather ==
    /\ prepPc = "input"
    /\ IsWeatherHistory(prepIn)
    /\ prepOut' = prepareWeatherDataForML(prepIn)
    /\ prepPc' = "weather"
    /\ UNCHANGED <<prepIn, cacheVars, slotVars, done>>

(***************************************************************************)
(* Arithmetic of the domain numbers (units of 1/10000).                    *)
(***************************************************************************)
Abs(x) == IF x < 0 THEN -x ELSE x
Max2(a, b) == IF a > b THEN a ELSE b
Min2(a, b) == IF a < b THEN a ELSE b

\* Math.round(x) of a number in units of 1/10000, as a whole number of units.
MathRound(x) == ((x + 5000) \div 10000) * 10000

\* Number(x.toFixed(1)): the nearest multiple of 0.1, halves away from zero.
ToFixed1(x) == IF x >= 0 THEN ((x + 500) \div 1000) * 1000
               ELSE -(((-x) + 500) \div 1000) * 1000

\* Math.random(), two draws of [0, 1): 0 and 0.999.
RandomDraws == {0, 9990}

\* (Math.random() - 0.5) * factor, the factor in tenths.
Jitter(rnd, tenths) == ((rnd - 5000) * tenths) \div 10

(***************************************************************************)
(* Soil route: trend, classification, alerts, recommendations.             *)
(***************************************************************************)
\* Mutant of determineTrend: the threshold is current * 0.05, without Math.abs.
determineTrendNoAbs(current, predicted) ==
    LET diff == predicted - current
    IN  IF diff * 100 > current * 5 THEN "ascending"
        ELSE IF diff * 100 < -(current * 5) THEN "descending"
        ELSE "stable"

determineTrend(current, predicted) ==
    LET diff == predicted - current
        \* threshold = Math.abs(current) * 0.05, compared times 100
    IN  IF diff * 100 > Abs(current) * 5 THEN "ascending"
        ELSE IF diff * 100 < -(Abs(current) * 5) THEN "descending"
        ELSE "stable"

classifyPH(pH) ==
    IF pH < 60000 THEN "low"
    ELSE IF pH > 80000 THEN "high"
    ELSE "optimal"

\* Mutant of classifyNutrient: both bounds are inclusive.
classifyNutrientInclusive(value, lowRange, optimalRange) ==
    IF value <= lowRange[2] THEN "low"
    ELSE IF value >= optimalRange[2] THEN "high"
    ELSE "optimal"

\* Mutant of classifyNutrient: the value is compared with the lower bound of the low
\* range instead of its upper bound.
classifyNutrientFromLowerBound(value, lowRange, optimalRange) ==
    IF value < lowRange[1] THEN "low"
    ELSE IF value > optimalRange[2] THEN "high"
    ELSE "optimal"

classifyNutrient(value, lowRange, optimalRange) ==
    IF value < lowRange[2] THEN "low"
    ELSE IF value > optimalRange[2] THEN "high"
    ELSE "optimal"

ALERT_PH_LOW == "pH bajo - Suelo muy acido, considerar encalado"
ALERT_PH_HIGH == "pH alto - Suelo muy alcalino, verificar drenaje"
ALERT_NITROGEN == "Deficiencia de Nitrogeno - Impacta crecimiento vegetativo"
ALERT_PHOSPHORUS == "Bajo Fosforo - Puede afectar desarrollo radicular"
ALERT_POTASSIUM == "Potasio insuficiente - Impacta resistencia al estres"
ALERT_MOISTURE == "Humedad baja - Considerar riego"

\* Mutant of generateSoilAlerts: the nutrient rules are chained with else, so only
\* the first deficient nutrient is reported.
generateSoilAlertsExclusive(current, levels) ==
    (IF levels.pH = "low" THEN <<ALERT_PH_LOW>>
     ELSE IF levels.pH = "high" THEN <<ALERT_PH_HIGH>> ELSE <<>>)
    \o (IF levels.nitrogen = "low" THEN <<ALERT_NITROGEN>>
        ELSE IF levels.phosphorus = "low" THEN <<ALERT_PHOSPHORUS>>
        ELSE IF levels.potassium = "low" THEN <<ALERT_POTASSIUM>> ELSE <<>>)
    \o (IF current.moisture < 400000 THEN <<ALERT_MOISTURE>> ELSE <<>>)

\* Mutant of generateSoilAlerts: the moisture rule is evaluated before the others.
generateSoilAlertsMoistureFirst(current, levels) ==
    (IF current.moisture < 400000 THEN <<ALERT_MOISTURE>> ELSE <<>>)
    \o (IF levels.pH = "low" THEN <<ALERT_PH_LOW>>
        ELSE IF levels.pH = "high" THEN <<ALERT_PH_HIGH>> ELSE <<>>)
    \o (IF levels.nitrogen = "low" THEN <<ALERT_NITROGEN>> ELSE <<>>)
    \o (IF levels.phosphorus = "low" THEN <<ALERT_PHOSPHORUS>> ELSE <<>>)
    \o (IF levels.potassium = "low" THEN <<ALERT_POTASSIUM>> ELSE <<>>)

generateSoilAlerts(current, levels) ==
    (IF levels.pH = "low" THEN <<ALERT_PH_LOW>>
     ELSE IF levels.pH = "high" THEN <<ALERT_PH_HIGH>> ELSE <<>>)
    \o (IF levels.nitrogen = "low" THEN <<ALERT_NITROGEN>> ELSE <<>>)
    \o (IF levels.phosphorus = "low" THEN <<ALERT_PHOSPHORUS>> ELSE <<>>)
    \o (IF levels.potassium = "low" THEN <<ALERT_POTASSIUM>> ELSE <<>>)
    \o (IF current.moisture < 400000 THEN <<ALERT_MOISTURE>> ELSE <<>>)

REC_NITROGEN == "Aplicar fertilizante nitrogenado (urea o sulfato de amonio)"
REC_PHOSPHORUS == "Incorporar fosfato diamonico o roca fosforica"
REC_POTASSIUM == "Anadir cloruro o sulfato de potasio"
REC_PH == "Aplicar cal agricola para subir pH"
REC_ORGANIC == "Incrementar materia organica con compost"
REC_OPTIMAL == "Condiciones del suelo son optimas, mantener programa actual"

\* Mutant of generateSoilRecommendations: no default message when no rule fired.
generateSoilRecommendationsNoDefault(levels, current) ==
    (IF levels.nitrogen = "low" THEN <<REC_NITROGEN>> ELSE <<>>)
    \o (IF levels.phosphorus = "low" THEN <<REC_PHOSPHORUS>> ELSE <<>>)
    \o (IF levels.potassium = "low" THEN <<REC_POTASSIUM>> ELSE <<>>)
    \o (IF levels.pH = "low" THEN <<REC_PH>> ELSE <<>>)
    \o (IF current.organic_matter < 30000 THEN <<REC_ORGANIC>> ELSE <<>>)

generateSoilRecommendations(levels, current) ==
    LET recommendations ==
            (IF levels.nitrogen = "low" THEN <<REC_NITROGEN>> ELSE <<>>)
            \o (IF levels.phosphorus = "low" THEN <<REC_PHOSPHORUS>> ELSE <<>>)
            \o (IF levels.potassium = "low" THEN <<REC_POTASSIUM>> ELSE <<>>)
            \o (IF levels.pH = "low" THEN <<REC_PH>> ELSE <<>>)
            \o (IF current.organic_matter < 30000 THEN <<REC_ORGANIC>> ELSE <<>>)
    IN  IF Len(recommendations) = 0 THEN <<REC_OPTIMAL>> ELSE recommendations

(***************************************************************************)
(* data-simulation.ts: NPKDataSimulator and generateSoilData.              *)
(* Math.sin and Math.cos are tables of the 24 hourly values.               *)
(***************************************************************************)
\* Math.sin(i * Math.PI / 12), i = 0..23
SinHour ==
    <<0, 2588, 5000, 7071, 8660, 9659, 10000, 9659, 8660, 7071, 5000, 2588,
      0, -2588, -5000, -7071, -8660, -9659, -10000, -9659, -8660, -7071, -5000, -2588>>

\* Math.cos(i * Math.PI / 12), i = 0..23
CosHour ==
    <<10000, 9659, 8660, 7071, 5000, 2588, 0, -2588, -5000, -7071, -8660, -9659,
      -10000, -9659, -8660, -7071, -5000, -2588, 0, 2588, 5000, 7071, 8660, 9659>>

\* Math.sin(timeIndex * 0.1), timeIndex = 0..23
SinTenth ==
    <<0, 998, 1987, 2955, 3894, 4794, 5646, 6442, 7174, 7833, 8415, 8912,
      9320, 9636, 9854, 9975, 9996, 9917, 9738, 9463, 9093, 8632, 8085, 7457>>

\* Mutant of constrainValue: only the upper limit is applied.
constrainValueUpperOnly(value, min, max) == Min2(max, value)

constrainValue(value, min, max) == Max2(min, Min2(max, value))

\* baseValues: pH 7.2, nitrogen 45.3, phosphorus 23.1, potassium 12.8
baseValues == [pH |-> 72000, nitrogen |-> 453000, phosphorus |-> 231000, potassium |-> 128000]

calculateNPKFromWeather(weather, timeIndex, rnd) ==
    LET tempFactor == (weather.temperature - 250000) \div 10
        humidityFactor == (weather.humidity - 600000) \div 20
        temporalVariation == SinTenth[timeIndex + 1] \div 10
        pH == constrainValue(
                  baseValues.pH + (humidityFactor * 3) \div 10 + tempFactor \div 10
                  + temporalVariation + Jitter(rnd, 2),
                  55000, 85000)
        nitrogen == constrainValue(
                  baseValues.nitrogen + humidityFactor * 5 - tempFactor * 2 + Jitter(rnd, 30),
                  200000, 800000)
        phosphorus == constrainValue(
                  baseValues.phosphorus + (tempFactor * 15) \div 10 + Jitter(rnd, 20),
                  100000, 400000)
        potassium == constrainValue(
                  baseValues.potassium + humidityFactor * 2 + tempFactor \div 2
                  + Jitter(rnd, 15),
                  80000, 250000)
    IN  [pH |-> ToFixed1(pH), nitrogen |-> ToFixed1(nitrogen),
         phosphorus |-> ToFixed1(phosphorus), potassium |-> ToFixed1(potassium)]

\* generateNPKTimeSeries: pH, N, P, K of every timestep, in order.
RECURSIVE generateNPKTimeSeries(_, _, _)
generateNPKTimeSeries(weatherData, index, rnd) ==
    IF index >= Len(weatherData) THEN <<>>
    ELSE LET soilData == calculateNPKFromWeather(weatherData[index + 1], index, rnd)
         IN  <<soilData.pH, soilData.nitrogen, soilData.phosphorus, soilData.potassium>>
             \o generateNPKTimeSeries(weatherData, index + 1, rnd)

generate24HourNPKData(currentWeather, rnd) ==
    LET weatherTimeSeries ==
            [i \in 1 .. TIMESTEPS |->
                [temperature |-> currentWeather.temperature + (SinHour[i] * 2)
                                 + Jitter(rnd, 10),
                 humidity |-> currentWeather.humidity + (CosHour[i] * 5)
                              + Jitter(rnd, 20)]]
    IN  generateNPKTimeSeries(weatherTimeSeries, 0, rnd)

\* generateSoilData(): its try block; nothing in it throws, so the catch is not taken.
generateSoilData(rnd) ==
    LET currentWeather == [temperature |-> 220000 + (rnd * 8),
                           humidity |-> 650000 + (rnd * 25)]
        historyForML == generate24HourNPKData(currentWeather, rnd)
        lastIndex == Len(historyForML) - 4
    IN  [current |->
            [pH |-> historyForML[lastIndex + 1],
             nitrogen |-> historyForML[lastIndex + 2],
             phosphorus |-> historyForML[lastIndex + 3],
             potassium |-> historyForML[lastIndex + 4],
             organic_matter |-> 32000 + Jitter(rnd, 8),
             moisture |-> (currentWeather.humidity * 85) \div 100 + Jitter(rnd, 100)],
         historyForML |-> historyForML]

(***************************************************************************)
(* ml-integration.ts: the prediction gateway.                              *)
(*                                                                         *)
(* An outcome of the inference call: "ok" is a 2xx answer whose JSON body  *)
(* has a predictions array (confidence 0: absent or 0); "noPredictions" a  *)
(* 2xx body without one; "nonNumeric" a predictions array of nulls; "http" *)
(* a non-2xx answer; "badJson" a body that does not parse; "network" a     *)
(* rejected fetch; "timeout" the AbortSignal firing after 15 s; "notSent"  *)
(* stands for the call that threw before fetch.                            *)
(***************************************************************************)
Outcome(kind, predictions, confidence) ==
    [kind |-> kind, predictions |-> predictions, confidence |-> confidence]

NotSent == Outcome("notSent", <<>>, 0)

FailureKinds == {"noPredictions", "nonNumeric", "http", "badJson", "network", "timeout"}

WeatherOutcomes ==
    {Outcome("ok", <<267660, 634000>>, 9000),
     Outcome("ok", <<341000, 701234, 5>>, 0),
     Outcome("ok", <<243000, 580000>>, 870000),
     Outcome("ok", <<267660>>, 9000)}
    \cup {Outcome(k, <<>>, 0) : k \in FailureKinds}

SoilOutcomes ==
    {Outcome("ok", <<73460, 470000, 240000, 150000>>, 9000),
     Outcome("ok", <<68000, 420490, 215000, 120000, 7>>, 0),
     Outcome("ok", <<73460, 470000, 240000, 150000>>, 870000),
     Outcome("ok", <<73460, 470000, 240000>>, 9000)}
    \cup {Outcome(k, <<>>, 0) : k \in FailureKinds}

\* The try block runs to its return: the input has the length, the answer is 2xx,
\* parses, and carries at least `need` numeric predictions.
TryReturns(inputData, outcome, inputLen, need) ==
    /\ Len(inputData) = inputLen
    /\ outcome.kind = "ok"
    /\ Len(outcome.predictions) >= need

\* inputData[index] || default, index counted from 0.
ElementOr(inputData, index, default) ==
    IF index >= 0 /\ index < Len(inputData) /\ inputData[index + 1] # 0
    THEN inputData[index + 1]
    ELSE default

\* The requests predict*Conditions makes to the endpoint: one, if the length is right.
RequestsEmitted(path, inputData, inputLen) ==
    IF Len(inputData) # inputLen THEN <<>>
    ELSE <<[path |-> path, len |-> Len(inputData)]>>

Resolved(value) == [settled |-> "resolved", value |-> <<value>>]
Rejected == [settled |-> "rejected", value |-> <<>>]

WEATHER_DEFAULT_CONFIDENCE == 8000
SOIL_DEFAULT_CONFIDENCE == 7500
FALLBACK_CONFIDENCE == 6000

WeatherCatch(inputData, rnd) ==
    LET currentTemp == ElementOr(inputData, Len(inputData) - 2, DEFAULT_TEMPERATURE)
        currentHumidity == ElementOr(inputData, Len(inputData) - 1, DEFAULT_HUMIDITY)
    IN  [next_temperature |-> currentTemp + Jitter(rnd, 20),
         next_humidity |-> currentHumidity + Jitter(rnd, 50),
         trend |-> "stable",
         confidence |-> FALLBACK_CONFIDENCE]

WeatherTry(inputData, outcome) ==
    LET nextTemp == outcome.predictions[1]
        nextHumidity == outcome.predictions[2]
        currentTemp == inputData[Len(inputData) - 1]
        tempDiff == nextTemp - currentTemp
    IN  [next_temperature |-> ToFixed1(nextTemp),
         next_humidity |-> ToFixed1(nextHumidity),
         trend |-> IF Abs(tempDiff) > 5000
                   THEN (IF tempDiff > 0 THEN "ascending" ELSE "descending")
                   ELSE "stable",
         confidence |-> IF outcome.confidence # 0 THEN outcome.confidence
                        ELSE WEATHER_DEFAULT_CONFIDENCE]

predictWeatherConditions(inputData, outcome, rnd) ==
    IF TryReturns(inputData, outcome, WEATHER_INPUT_LEN, 2)
    THEN Resolved(WeatherTry(inputData, outcome))
    ELSE Resolved(WeatherCatch(inputData, rnd))

SoilCatch(inputData, rnd) ==
    LET lastIndex == Len(inputData) - 4
        currentPH == ElementOr(inputData, lastIndex, DEFAULT_PH)
        currentN == ElementOr(inputData, lastIndex + 1, DEFAULT_NITROGEN)
        currentP == ElementOr(inputData, lastIndex + 2, DEFAULT_PHOSPHORUS)
        currentK == ElementOr(inputData, lastIndex + 3, DEFAULT_POTASSIUM)
    IN  [pH |-> currentPH + Jitter(rnd, 2),
         nitrogen |-> currentN + Jitter(rnd, 30),
         phosphorus |-> currentP + Jitter(rnd, 20),
         potassium |-> currentK + Jitter(rnd, 20),
         confidence |-> FALLBACK_CONFIDENCE]

SoilTry(outcome) ==
    [pH |-> ToFixed1(outcome.predictions[1]),
     nitrogen |-> ToFixed1(outcome.predictions[2]),
     phosphorus |-> ToFixed1(outcome.predictions[3]),
     potassium |-> ToFixed1(outcome.predictions[4]),
     confidence |-> IF outcome.confidence # 0 THEN outcome.confidence
                    ELSE SOIL_DEFAULT_CONFIDENCE]

\* Mutant of predictSoilConditions: the catch block rethrows.
predictSoilConditionsRethrow(inputData, outcome, rnd) ==
    IF TryReturns(inputData, outcome, SOIL_INPUT_LEN, 4)
    THEN Resolved(SoilTry(outcome))
    ELSE Rejected

predictSoilConditions(inputData, outcome, rnd) ==
    IF TryReturns(inputData, outcome, SOIL_INPUT_LEN, 4)
    THEN Resolved(SoilTry(outcome))
    ELSE Resolved(SoilCatch(inputData, rnd))

(***************************************************************************)
(* Soil route (GET /api/soil-data).                                        *)
(***************************************************************************)
Req == 1 .. MaxReq
Routes == {"soil", "weather"}
FaultChoices == IF faultsOn THEN {FALSE, TRUE} ELSE {FALSE}

\* No handler and no direct call is running for r.
Ready(r) == pc[r] = "idle"

\* response.ok of the fetch API: the status is in 200..299.
ResponseOk(status) == status >= 200 /\ status <= 299

SoilTrendAnalysis(current, p) ==
    [pH |-> determineTrend(current.pH, p.pH),
     nitrogen |-> determineTrend(current.nitrogen, p.nitrogen),
     phosphorus |-> determineTrend(current.phosphorus, p.phosphorus),
     potassium |-> determineTrend(current.potassium, p.potassium)]

WithTrend(current, p) ==
    [pH |-> p.pH, nitrogen |-> p.nitrogen, phosphorus |-> p.phosphorus,
     potassium |-> p.potassium, confidence |-> p.confidence,
     trend_analysis |-> SoilTrendAnalysis(current, p)]

\* The catch (mlError) block of the soil route.
SoilMlCatch(current, rnd) ==
    WithTrend(current,
              [pH |-> current.pH + Jitter(rnd, 2),
               nitrogen |-> current.nitrogen + Jitter(rnd, 50),
               phosphorus |-> current.phosphorus + Jitter(rnd, 30),
               potassium |-> current.potassium + Jitter(rnd, 40),
               confidence |-> 7000])

\* The inner try/catch of the soil route: ml is the settled promise of the gateway.
SoilPrediction(current, ml, rnd) ==
    IF ml.settled = "resolved" THEN WithTrend(current, ml.value[1])
    ELSE SoilMlCatch(current, rnd)

SoilNutrientLevels(current) ==
    [pH |-> classifyPH(current.pH),
     nitrogen |-> classifyNutrient(current.nitrogen, <<0, 500000>>, <<500000, 1000000>>),
     phosphorus |-> classifyNutrient(current.phosphorus, <<0, 300000>>, <<300000, 600000>>),
     potassium |-> classifyNutrient(current.potassium, <<0, 400000>>, <<400000, 800000>>)]

SoilResponse(current, prediction) ==
    LET nutrient_levels == SoilNutrientLevels(current)
    IN  [current |-> current,
         prediction |-> prediction,
         alerts |-> generateSoilAlerts(current, nutrient_levels),
         recommendations |-> generateSoilRecommendations(nutrient_levels, current),
         nutrient_levels |-> nutrient_levels]

SOIL_DEGRADED_ALERT == "Datos simulados - Servicio en mantenimiento"

\* Mutant of SoilFallbackResponse: the fallback carries no alert.
SoilFallbackResponseNoAlert ==
    [current |-> [pH |-> 70000, nitrogen |-> 450000, phosphorus |-> 250000,
                  potassium |-> 350000, organic_matter |-> 32000, moisture |-> 650000],
     prediction |-> [pH |-> 71000, nitrogen |-> 460000, phosphorus |-> 260000,
                     potassium |-> 360000, confidence |-> 6000,
                     trend_analysis |-> [pH |-> "ascending", nitrogen |-> "ascending",
                                         phosphorus |-> "ascending",
                                         potassium |-> "ascending"]],
     alerts |-> <<>>,
     recommendations |-> <<"Verificar conectividad de sensores">>,
     nutrient_levels |-> [pH |-> "optimal", nitrogen |-> "optimal",
                          phosphorus |-> "optimal", potassium |-> "low"]]

\* fallbackResponse of the soil route's catch block.
SoilFallbackResponse ==
    [current |-> [pH |-> 70000, nitrogen |-> 450000, phosphorus |-> 250000,
                  potassium |-> 350000, organic_matter |-> 32000, moisture |-> 650000],
     prediction |-> [pH |-> 71000, nitrogen |-> 460000, phosphorus |-> 260000,
                     potassium |-> 360000, confidence |-> 6000,
                     trend_analysis |-> [pH |-> "ascending", nitrogen |-> "ascending",
                                         phosphorus |-> "ascending",
                                         potassium |-> "ascending"]],
     alerts |-> <<SOIL_DEGRADED_ALERT>>,
     recommendations |-> <<"Verificar conectividad de sensores">>,
     nutrient_levels |-> [pH |-> "optimal", nitrogen |-> "optimal",
                          phosphorus |-> "optimal", potassium |-> "low"]]

\* NextResponse.json(body) and NextResponse.json(body, { status }).
JsonResponse(body, status) == [status |-> status, body |-> body]

\* What a finished call leaves behind for `done`.
\*   kind     "route" a GET handler, "direct" predict*Conditions called on its own
\*   resp     the response of the handler, null for a direct call
\*   how      the branch that built it: "hit", "pipeline", "mlCatch", "fallback"
\*   cause    what threw, "" if nothing did
\*   input    the array handed to the gateway, sent the requests it made
\*   gw       the settled promise of the gateway, null if it was not called
\*   outcome  the outcome of the inference call, null if the gateway was not called
Finished(r, route, kind, response, branch, why, input, requests, gw, outcome) ==
    [r |-> r, route |-> route, kind |-> kind, resp |-> response, how |-> branch,
     cause |-> why, input |-> input, sent |-> requests, gw |-> gw,
     outcome |-> outcome, at |-> now]

\* A call starts or goes on: nothing returned in this step.
Goes(r, newPc, newLoc, newInput, newSent) ==
    /\ pc' = [pc EXCEPT ![r] = newPc]
    /\ loc' = [loc EXCEPT ![r] = newLoc]
    /\ mlInput' = [mlInput EXCEPT ![r] = newInput]
    /\ sent' = [sent EXCEPT ![r] = newSent]
    /\ done' = Null

\* A call returns: its locals are gone.
Return(r, finished) ==
    /\ pc' = [pc EXCEPT ![r] = "idle"]
    /\ loc' = [loc EXCEPT ![r] = Null]
    /\ mlInput' = [mlInput EXCEPT ![r] = <<>>]
    /\ sent' = [sent EXCEPT ![r] = <<>>]
    /\ done' = Some(finished)

\* Mutant of RequestsAfterCatch: the catch block asks the endpoint once more.
RequestsAfterCatchRetry(requests, outcome) ==
    IF outcome.kind \in FailureKinds THEN requests \o requests ELSE requests

\* The requests made when predict*Conditions returns: its catch block makes none.
RequestsAfterCatch(requests, outcome) == requests

\* Mutant of SoilStoredTtl: the snapshot is stored with the TTL of the weather data.
SoilStoredTtlWeather == CACHE_TTL_WEATHER

\* cacheHelpers.setSoilData: the TTL it stores with.
SoilStoredTtl == CACHE_TTL_SOIL

\* Mutant of SoilCatchStore: the catch block stores the static fallback like a
\* snapshot.
SoilCatchStoreWrites(c, t) == CacheSet(c, SOIL_DATA, SoilFallbackResponse, t, SoilStoredTtl)

\* The outer catch block of the soil route: it responds and leaves the Map alone.
SoilCatchStore(c, t) == c

\* generateSoilData() for every draw of Math.random().
GeneratedSoilData == [rnd \in RandomDraws |-> generateSoilData(rnd)]

\* GET, up to the first await: the cache is read; a hit returns at once.
SoilStart(r) ==
    /\ Ready(r)
    /\ LET cachedData == CacheGetResult(cache, SOIL_DATA, now)
       IN  /\ cache' = CacheGetStore(cache, SOIL_DATA, now)
           /\ IF cachedData # Null
              THEN Return(r, Finished(r, "soil", "route",
                                      Some(JsonResponse(cachedData[1], 200)),
                                      "hit", "", <<>>, <<>>, Null, Null))
              ELSE Goes(r, "soilGen", Null, <<>>, <<>>)
    /\ UNCHANGED <<now, cleanupInterval, timers, lastOp, latest, prepVars, faultsOn>>

\* await generateSoilData() resolves; predictSoilConditions runs up to its fetch.
SoilGenerated(r) ==
    /\ pc[r] = "soilGen"
    /\ \E rnd \in RandomDraws, fault \in FaultChoices :
          IF fault
          THEN /\ Return(r, Finished(r, "soil", "route",
                                     Some(JsonResponse(SoilFallbackResponse, 200)),
                                     "fallback", "fault:generator", <<>>, <<>>, Null, Null))
               /\ cache' = SoilCatchStore(cache, now)
          ELSE /\ LET soilData == GeneratedSoilData[rnd]
                  IN  Goes(r, "soilInfer", Some(soilData.current), soilData.historyForML,
                           RequestsEmitted("/predict/suelo", soilData.historyForML,
                                           SOIL_INPUT_LEN))
               /\ UNCHANGED cache
    /\ UNCHANGED <<now, cleanupInterval, timers, lastOp, latest, prepVars, faultsOn>>

\* The inference call settles (an answer, an error or the 15 s timeout); the rest of
\* the handler runs to its return without another await.
SoilFinish(r) ==
    /\ pc[r] = "soilInfer"
    /\ \E outcome \in (IF sent[r] = <<>> THEN {NotSent} ELSE SoilOutcomes),
          rnd \in RandomDraws, fault \in FaultChoices :
          LET ml == predictSoilConditions(mlInput[r], outcome, rnd)
              requests == RequestsAfterCatch(sent[r], outcome)
              current == loc[r][1]
              response == SoilResponse(current, SoilPrediction(current, ml, rnd))
          IN  IF fault
              THEN /\ Return(r, Finished(r, "soil", "route",
                                         Some(JsonResponse(SoilFallbackResponse, 200)),
                                         "fallback", "fault:rules", mlInput[r], requests,
                                         Some(ml), Some(outcome)))
                   /\ cache' = SoilCatchStore(cache, now)
              ELSE /\ cache' = CacheSet(cache, SOIL_DATA, response, now, SoilStoredTtl)
                   /\ Return(r, Finished(r, "soil", "route",
                                         Some(JsonResponse(response, 200)),
                                         IF ml.settled = "resolved" THEN "pipeline"
                                         ELSE "mlCatch",
                                         "", mlInput[r], requests, Some(ml), Some(outcome)))
    /\ UNCHANGED <<now, cleanupInterval, timers, lastOp, latest, prepVars, faultsOn>>

(***************************************************************************)
(* Weather route (GET /api/weather), the version with formatted values.    *)
(*                                                                         *)
(* An answer of the current-weather source: "ok" a 2xx answer with the     *)
(* expected body, "malformed" a 2xx JSON body without `main`, "http" a     *)
(* non-2xx answer, "badJson" a body that does not parse, "network" a       *)
(* rejected fetch.  The fetch carries no timeout.                          *)
(***************************************************************************)
Observation(temp, humidity, feels, pressure, weather, wind) ==
    [main |-> [temp |-> temp, humidity |-> humidity, feels_like |-> feels,
               pressure |-> pressure],
     weather |-> weather,
     wind |-> [speed |-> wind]]

SourceAnswers ==
    {[kind |-> "ok",
      data |-> <<Observation(183400, 823000, 179000, 10132000,
                             <<[main |-> "Clouds", description |-> "nubes", icon |-> "04d"]>>,
                             34600)>>],
     [kind |-> "ok",
      data |-> <<Observation(314000, 352000, 330000, 10094000, <<>>, 12000)>>]}
    \cup {[kind |-> k, data |-> <<>>] : k \in {"malformed", "http", "badJson", "network"}}

formatWeatherValue(value) == ToFixed1(value)

formatConfidence(value) ==
    IF value > 10000 THEN Min2(MathRound(value), 1000000)
    ELSE MathRound(value * 100)

\* generateSimulatedHistory: the readings for i = 23 down to 0, oldest first.
generateSimulatedHistory(currentWeather, rnd) ==
    [k \in 1 .. TIMESTEPS |->
        [temperature |-> formatWeatherValue(
                             currentWeather.main.temp + (SinHour[(k % 24) + 1] * 3)
                             + Jitter(rnd, 20)),
         humidity |-> MathRound(
                             currentWeather.main.humidity + (CosHour[(k % 24) + 1] * 8)
                             + Jitter(rnd, 50))]]

\* The history as prepareWeatherDataForML reads it: every field a number.
AsReadings(history) ==
    [k \in 1 .. Len(history) |->
        [temperature |-> Num(history[k].temperature), humidity |-> Num(history[k].humidity)]]

generateWeatherAlerts(current, prediction) ==
    (IF current.main.temp > 300000 THEN <<"Temperatura alta - Considerar riego adicional">>
     ELSE <<>>)
    \o (IF current.main.temp < 150000 THEN <<"Temperatura baja - Riesgo de helada">>
        ELSE <<>>)
    \o (IF current.main.humidity > 800000
        THEN <<"Humedad alta - Riesgo de enfermedades fungicas">> ELSE <<>>)
    \o (IF current.main.humidity < 400000
        THEN <<"Humedad baja - Estres hidrico en plantas">> ELSE <<>>)
    \o (IF prediction.trend = "ascending" /\ prediction.next_temperature > 320000
        THEN <<"Tendencia al calor - Planificar proteccion solar">> ELSE <<>>)

\* One entry of generateSimpleForecast; temperature is the number n of the text "n'C".
ForecastEntry(day, prediction, baseCondition, rnd) ==
    LET predictedTemp == MathRound(prediction.next_temperature + Jitter(rnd, 40))
        condition ==
            IF predictedTemp > 300000 THEN (IF rnd > 7000 THEN "Clear" ELSE "Clouds")
            ELSE IF predictedTemp < 200000 THEN (IF rnd > 5000 THEN "Clouds" ELSE "Rain")
            ELSE IF rnd > 6000 THEN "Clear"
            ELSE IF rnd > 3000 THEN "Clouds"
            ELSE baseCondition
    IN  [time |-> day, temperature |-> predictedTemp, condition |-> condition]

generateSimpleForecast(prediction, baseCondition, rnd) ==
    <<ForecastEntry("Manana", prediction, baseCondition, rnd),
      ForecastEntry("Miercoles", prediction, baseCondition, rnd),
      ForecastEntry("Jueves", prediction, baseCondition, rnd)>>

\* weather[0]?.field || default
FirstWeather(currentData, fld, default) ==
    IF Len(currentData.weather) > 0 THEN currentData.weather[1][fld] ELSE default

WeatherResponse(currentData, prediction, t, rnd) ==
    [current |-> [temperature |-> formatWeatherValue(currentData.main.temp),
                  humidity |-> MathRound(currentData.main.humidity),
                  feels_like |-> formatWeatherValue(currentData.main.feels_like),
                  pressure |-> MathRound(currentData.main.pressure),
                  description |-> FirstWeather(currentData, "description", "Sin descripcion"),
                  condition |-> FirstWeather(currentData, "main", "Clear"),
                  icon |-> FirstWeather(currentData, "icon", "01d"),
                  wind_speed |-> formatWeatherValue(currentData.wind.speed),
                  timestamp |-> t],
     prediction |-> [next_temperature |-> formatWeatherValue(prediction.next_temperature),
                     next_humidity |-> MathRound(prediction.next_humidity),
                     trend |-> prediction.trend,
                     confidence |-> formatConfidence(prediction.confidence)],
     alerts |-> generateWeatherAlerts(currentData, prediction),
     forecast |-> generateSimpleForecast(prediction,
                                         FirstWeather(currentData, "main", "Clear"), rnd)]

WEATHER_DEGRADED_ALERT == "Error al obtener datos reales - usando simulacion"
WEATHER_FALLBACK_STATUS == 206

\* fallbackResponse of the weather route's catch block.
WeatherFallbackResponse(t) ==
    [current |-> [temperature |-> 250000, humidity |-> 650000, feels_like |-> 260000,
                  pressure |-> 10130000, description |-> "datos simulados",
                  condition |-> "Clear", icon |-> "01d", wind_speed |-> 100000,
                  timestamp |-> t],
     prediction |-> [next_temperature |-> 260000, next_humidity |-> 630000,
                     trend |-> "stable", confidence |-> 500000],
     alerts |-> <<WEATHER_DEGRADED_ALERT>>,
     forecast |-> <<[time |-> "Manana", temperature |-> 260000, condition |-> "Clear"],
                    [time |-> "Miercoles", temperature |-> 240000, condition |-> "Clouds"],
                    [time |-> "Jueves", temperature |-> 250000, condition |-> "Clear"]>>]

\* const weatherHistory = generateSimulatedHistory(currentData) and
\* const mlInputData = prepareWeatherDataForML(weatherHistory), for every answer of
\* the source and every draw of Math.random().
PreparedWeatherInput ==
    [p \in {a.data[1] : a \in {x \in SourceAnswers : x.kind = "ok"}} \X RandomDraws |->
        prepareWeatherDataForML(AsReadings(generateSimulatedHistory(p[1], p[2])))]

\* GET, up to its first await: the fetch of the current weather is issued.
WeatherStart(r) ==
    /\ Ready(r)
    /\ Goes(r, "weatherSource", Null, <<>>, <<>>)
    /\ UNCHANGED <<cacheVars, prepVars, faultsOn>>

\* The weather source answers; the handler runs up to the fetch of the gateway.
WeatherSourceAnswers(r) ==
    /\ pc[r] = "weatherSource"
    /\ \E answer \in SourceAnswers, rnd \in RandomDraws :
          IF answer.kind # "ok"
          THEN Return(r, Finished(r, "weather", "route",
                                  Some(JsonResponse(WeatherFallbackResponse(now),
                                                    WEATHER_FALLBACK_STATUS)),
                                  "fallback", "source:" \o answer.kind,
                                  <<>>, <<>>, Null, Null))
          ELSE LET currentData == answer.data[1]
                   mlInputData == PreparedWeatherInput[<<currentData, rnd>>]
               IN  Goes(r, "weatherInfer", Some(currentData), mlInputData,
                        RequestsEmitted("/predict/clima", mlInputData, WEATHER_INPUT_LEN))
    /\ UNCHANGED <<cacheVars, prepVars, faultsOn>>

\* The inference call settles; the handler builds the response and returns it.
WeatherFinish(r) ==
    /\ pc[r] = "weatherInfer"
    /\ \E outcome \in (IF sent[r] = <<>> THEN {NotSent} ELSE WeatherOutcomes),
          rnd \in RandomDraws, fault \in FaultChoices :
          LET ml == predictWeatherConditions(mlInput[r], outcome, rnd)
              requests == RequestsAfterCatch(sent[r], outcome)
              thrown == IF ml.settled # "resolved" THEN "inference"
                        ELSE IF fault THEN "fault:rules" ELSE ""
          IN  Return(r, Finished(r, "weather", "route",
                                 Some(IF thrown # ""
                                      THEN JsonResponse(WeatherFallbackResponse(now),
                                                        WEATHER_FALLBACK_STATUS)
                                      ELSE JsonResponse(
                                               WeatherResponse(loc[r][1], ml.value[1],
                                                               now, rnd),
                                               200)),
                                 IF thrown # "" THEN "fallback" ELSE "pipeline",
                                 thrown, mlInput[r], requests, Some(ml), Some(outcome)))
    /\ UNCHANGED <<cacheVars, prepVars, faultsOn>>

(***************************************************************************)
(* predict*Conditions called directly, with an array of any length.        *)
(***************************************************************************)
\* The lengths tried: empty, short, and one either side of the two required lengths.
DirectLengths ==
    {0, 1, WEATHER_INPUT_LEN - 1, WEATHER_INPUT_LEN, WEATHER_INPUT_LEN + 1,
     SOIL_INPUT_LEN - 1, SOIL_INPUT_LEN, MaxInputLen}

\* An array of n numbers; with `zeros` every element is 0.
DirectInput(n, zeros) ==
    IF n = 0 THEN <<>> ELSE [i \in 1 .. n |-> IF zeros THEN 0 ELSE 60000 + (1000 * i)]

\* predict*Conditions(inputData), up to its fetch.
DirectCall(r) ==
    /\ Ready(r)
    /\ \E n \in DirectLengths, zeros \in BOOLEAN, route \in Routes :
          Goes(r, IF route = "soil" THEN "gwSoil" ELSE "gwWeather", Null,
               DirectInput(n, zeros),
               IF route = "soil"
               THEN RequestsEmitted("/predict/suelo", DirectInput(n, zeros),
                                    SOIL_INPUT_LEN)
               ELSE RequestsEmitted("/predict/clima", DirectInput(n, zeros),
                                    WEATHER_INPUT_LEN))
    /\ UNCHANGED <<cacheVars, prepVars, faultsOn>>

\* The inference call settles and predict*Conditions returns to its caller.
DirectSettle(r) ==
    /\ pc[r] \in {"gwSoil", "gwWeather"}
    /\ \E outcome \in (IF sent[r] = <<>> THEN {NotSent}
                       ELSE IF pc[r] = "gwSoil" THEN SoilOutcomes ELSE WeatherOutcomes),
          rnd \in RandomDraws :
          Return(r, Finished(r, IF pc[r] = "gwSoil" THEN "soil" ELSE "weather", "direct",
                             Null, "", "", mlInput[r],
                             RequestsAfterCatch(sent[r], outcome),
                             Some(IF pc[r] = "gwSoil"
                                  THEN predictSoilConditions(mlInput[r], outcome, rnd)
                                  ELSE predictWeatherConditions(mlInput[r], outcome, rnd)),
                             Some(outcome)))
    /\ UNCHANGED <<cacheVars, prepVars, faultsOn>>

(***************************************************************************)
(* The rules of the soil route applied directly: determineTrend to pairs   *)
(* of values around the threshold, and the classification, alerts and      *)
(* recommendations to current values around every boundary.                *)
(***************************************************************************)
\* Pairs (current, predicted): the difference is the threshold, its negative or 0,
\* each also one unit above and one unit below.
TrendInputs ==
    {[fn |-> "determineTrend", current |-> c,
      predicted |-> c + (s * ((Abs(c) * 5) \div 100)) + e] :
        c \in {-200000, -20, 0, 20, 130000, 200000}, s \in {-1, 0, 1}, e \in {-1, 0, 1}}

\* Current soil values on, just below and just above the bounds of the levels; the
\* predicted potassium is 2 above the current one.
RuleInputs ==
    {[fn |-> "rules",
      soil |-> [pH |-> pH, nitrogen |-> n, phosphorus |-> p, potassium |-> k,
                organic_matter |-> om, moisture |-> m],
      mlPrediction |-> [pH |-> pH, nitrogen |-> n, phosphorus |-> p,
                        potassium |-> k + 20000, confidence |-> 9000]] :
        pH \in {59990, 60000, 72000, 80000, 80010},
        n \in {450000, 499990, 500000, 1000000, 1000010},
        p \in {230000, 300000, 600010},
        k \in {130000, 400000, 800010},
        om \in {29990, 30000},
        m \in {399990, 400000}}

EngineInit ==
    /\ prepPc = "input"
    /\ prepIn \in TrendInputs \cup RuleInputs
    /\ prepOut = <<>>

ApplyDetermineTrend ==
    /\ prepPc = "input"
    /\ prepIn.fn = "determineTrend"
    /\ prepOut' = determineTrend(prepIn.current, prepIn.predicted)
    /\ prepPc' = "determineTrend"
    /\ UNCHANGED <<prepIn, cacheVars, slotVars, done>>

\* The soil route from its prediction on: trend_analysis, nutrient_levels, alerts and
\* recommendations, assembled into the response.
ApplySoilRules ==
    /\ prepPc = "input"
    /\ prepIn.fn = "rules"
    /\ prepOut' = SoilResponse(prepIn.soil, WithTrend(prepIn.soil, prepIn.mlPrediction))
    /\ prepPc' = "rules"
    /\ UNCHANGED <<prepIn, cacheVars, slotVars, done>>

(***************************************************************************)
(* The generators applied directly: the NPK simulator to one reading and   *)
(* to a day, and generateSimulatedHistory to a current observation, with   *)
(* temperatures and humidities from far below to far above the usual and   *)
(* Math.random() at its lowest, its middle and its highest.                *)
(***************************************************************************)
ExtremeDraws == {0, 5000, 9999}
ExtremeTemperatures == {-1000000, 0, 250000, 600000, 10000000}
ExtremeHumidities == {-1000000, 0, 600000, 1000000, 10000000}

SimulatorInputs ==
    {[fn |-> "calculateNPKFromWeather", weather |-> [temperature |-> t, humidity |-> h],
      timeIndex |-> i, rnd |-> r] :
        t \in ExtremeTemperatures, h \in ExtremeHumidities, i \in {0, 16, 23},
        r \in ExtremeDraws}
    \cup {[fn |-> "generate24HourNPKData", weather |-> [temperature |-> t, humidity |-> h],
           rnd |-> r] :
        t \in ExtremeTemperatures, h \in ExtremeHumidities, r \in ExtremeDraws}
    \cup {[fn |-> "generateSimulatedHistory",
           currentWeather |-> [main |-> [temp |-> t, humidity |-> h]], rnd |-> r] :
        t \in {-890000, 0, 250000, 570000}, h \in {0, 500000, 950000, 1000000},
        r \in ExtremeDraws}

SimulatorInit ==
    /\ CacheInit
    /\ prepPc = "input"
    /\ prepIn \in SimulatorInputs
    /\ prepOut = <<>>
    /\ pc = [r \in Req |-> "idle"]
    /\ loc = [r \in Req |-> Null]
    /\ mlInput = [r \in Req |-> <<>>]
    /\ sent = [r \in Req |-> <<>>]
    /\ done = Null
    /\ faultsOn = FALSE

ApplyCalculateNPK ==
    /\ prepPc = "input"
    /\ prepIn.fn = "calculateNPKFromWeather"
    /\ prepOut' = calculateNPKFromWeather(prepIn.weather, prepIn.timeIndex, prepIn.rnd)
    /\ prepPc' = "calculateNPKFromWeather"
    /\ UNCHANGED <<prepIn, cacheVars, slotVars, done>>

ApplyGenerate24Hour ==
    /\ prepPc = "input"
    /\ prepIn.fn = "generate24HourNPKData"
    /\ prepOut' = generate24HourNPKData(prepIn.weather, prepIn.rnd)
    /\ prepPc' = "generate24HourNPKData"
    /\ UNCHANGED <<prepIn, cacheVars, slotVars, done>>

ApplyGenerateSimulatedHistory ==
    /\ prepPc = "input"
    /\ prepIn.fn = "generateSimulatedHistory"
    /\ prepOut' = generateSimulatedHistory(prepIn.currentWeather, prepIn.rnd)
    /\ prepPc' = "generateSimulatedHistory"
    /\ UNCHANGED <<prepIn, cacheVars, slotVars, done>>

(***************************************************************************)
(* Specifications.                                                         *)
(***************************************************************************)
ReqInit(faults) ==
    /\ pc = [r \in Req |-> "idle"]
    /\ loc = [r \in Req |-> Null]
    /\ mlInput = [r \in Req |-> <<>>]
    /\ sent = [r \in Req |-> <<>>]
    /\ done = Null
    /\ faultsOn = faults

Init == CacheInit /\ PrepIdle /\ ReqInit(FALSE)

\* One caller after another served by the two routes, the clock and the sweep timer.
Next ==
    \/ Tick
    \/ Sweep
    \/ SoilStart(1)
    \/ SoilGenerated(1)
    \/ SoilFinish(1)
    \/ WeatherStart(1)
    \/ WeatherSourceAnswers(1)
    \/ WeatherFinish(1)

Spec == Init /\ [][Next]_vars

\* Requests served concurrently: their awaits interleave; the clock at rest.
ConcurrentNext ==
    \/ \E r \in Req : SoilStart(r)
    \/ \E r \in Req : SoilGenerated(r)
    \/ \E r \in Req : SoilFinish(r)
    \/ \E r \in Req : WeatherStart(r)
    \/ \E r \in Req : WeatherSourceAnswers(r)
    \/ \E r \in Req : WeatherFinish(r)

ConcurrentSpec == Init /\ [][ConcurrentNext]_vars

\* Soil requests served concurrently while the clock advances and the sweep timer
\* fires between their awaits.
OverlapNext ==
    \/ Tick
    \/ Sweep
    \/ \E r \in Req : SoilStart(r)
    \/ \E r \in Req : SoilGenerated(r)
    \/ \E r \in Req : SoilFinish(r)

OverlapSpec == Init /\ [][OverlapNext]_vars

\* One caller: the gateway called directly and through the routes, the clock at rest.
GatewayNext ==
    \/ DirectCall(1)
    \/ DirectSettle(1)
    \/ SoilStart(1)
    \/ SoilGenerated(1)
    \/ SoilFinish(1)
    \/ WeatherStart(1)
    \/ WeatherSourceAnswers(1)
    \/ WeatherFinish(1)

GatewaySpec == Init /\ [][GatewayNext]_vars

\* One caller, with steps of the handlers allowed to throw on their own.
FaultInit == CacheInit /\ PrepIdle /\ ReqInit(TRUE)

FaultSpec == FaultInit /\ [][GatewayNext]_vars

\* One caller; every await the code bounds is eventually resumed: the promise of
\* generateSoilData resolves, and the inference call settles by its 15 s timeout at
\* the latest.  The fetch of the weather source has no timeout and gets no fairness.
FairSpec ==
    /\ GatewaySpec
    /\ WF_vars(SoilGenerated(1))
    /\ WF_vars(SoilFinish(1))
    /\ WF_vars(WeatherFinish(1))
    /\ WF_vars(DirectSettle(1))

\* The generators alone.
SimulatorNext ==
    \/ ApplyCalculateNPK
    \/ ApplyGenerate24Hour
    \/ ApplyGenerateSimulatedHistory

SimulatorSpec == SimulatorInit /\ [][SimulatorNext]_vars

\* The cache alone.
CacheNext ==
    \/ CacheTick
    \/ Sweep
    \/ DoCleanup
    \/ StopCleanup
    \/ DoClear
    \/ \E k \in CacheKeys, v \in CacheValues, ttlMs \in Ttls : DoSet(k, v, ttlMs)
    \/ \E k \in CacheKeys : DoGet(k)
    \/ \E k \in CacheKeys : DoHas(k)
    \/ \E k \in CacheKeys : DoDelete(k)

\* The cache alone, with the interval timer firing again and again while the
\* runtime holds it (setInterval is independent of the calls made).
SweepSpec == Init /\ [][CacheNext]_vars /\ WF_vars(Sweep)

CacheSpec == Init /\ [][CacheNext]_vars

\* prepareSoilDataForML and prepareWeatherDataForML alone.
PrepSpecInit == CacheInit /\ PrepInit /\ ReqInit(FALSE)

PrepNext == ApplyPrepareSoil \/ ApplyPrepareWeather

PrepSpec == PrepSpecInit /\ [][PrepNext]_vars

\* The rules of the soil route alone.
EngineSpecInit == CacheInit /\ EngineInit /\ ReqInit(FALSE)

EngineNext == ApplyDetermineTrend \/ ApplySoilRules

EngineSpec == EngineSpecInit /\ [][EngineNext]_vars

(***************************************************************************)
(* Properties.                                                             *)
(***************************************************************************)
\* The call that returned in the last step.
Returned == done[1]

\* The required input length and the number of forecast fields of a domain.
InputLenOf(route) == IF route = "soil" THEN SOIL_INPUT_LEN ELSE WEATHER_INPUT_LEN
ForecastFieldsOf(route) == IF route = "soil" THEN 4 ELSE 2

\* The inference call of the returned call failed: no request went out, the answer was
\* no 2xx answer with a JSON body, or the prediction vector was missing or too short.
InferenceFailed ==
    /\ done # Null
    /\ Returned.outcome # Null
    /\ \/ Returned.outcome[1].kind # "ok"
       \/ Len(Returned.outcome[1].predictions) < ForecastFieldsOf(Returned.route)

\* C1: predictWeatherConditions and predictSoilConditions resolve for every outcome of
\* the inference call and never reject; after a failed call the result has all of its
\* forecast fields and a confidence of at most 0.7; a request whose inference call
\* failed is answered by neither the ML-error branch nor the fallback of its route.
C1GatewayNeverRejects ==
    (done # Null /\ Returned.gw # Null) =>
        /\ Returned.gw[1].settled = "resolved"
        /\ InferenceFailed =>
              LET result == Returned.gw[1].value[1]
              IN  /\ result.confidence <= 7000
                  /\ IF Returned.route = "soil"
                     THEN /\ result.pH \in Int
                          /\ result.nitrogen \in Int
                          /\ result.phosphorus \in Int
                          /\ result.potassium \in Int
                     ELSE /\ result.next_temperature \in Int
                          /\ result.next_humidity \in Int
        /\ Returned.kind = "route" =>
              /\ Returned.how = "pipeline"
              /\ Returned.cause = ""

\* C1 witness: a soil request whose inference call timed out got the degraded
\* prediction from the gateway and was answered by the normal branch.
C1Witness ==
    /\ done # Null
    /\ Returned.kind = "route"
    /\ Returned.route = "soil"
    /\ Returned.outcome # Null
    /\ Returned.outcome[1].kind = "timeout"
    /\ Returned.gw[1].settled = "resolved"
    /\ Returned.gw[1].value[1].confidence = FALLBACK_CONFIDENCE
    /\ Returned.how = "pipeline"

\* C2: a request in which a step threw is answered by the fallback of its route, and
\* every fallback has a 2xx status and a complete body: current values, a prediction
\* with confidence and trend, the degraded-service alert, and for soil also
\* recommendations and levels.
C2FallbackOnAnyError ==
    (done # Null /\ Returned.kind = "route") =>
        /\ Returned.resp # Null
        /\ Returned.cause # "" => Returned.how = "fallback"
        /\ Returned.how = "fallback" =>
              LET status == Returned.resp[1].status
                  body == Returned.resp[1].body
              IN  /\ ResponseOk(status)
                  /\ Len(body.alerts) >= 1
                  /\ body.prediction.confidence \in Nat
                  /\ IF Returned.route = "soil"
                     THEN /\ body.alerts[1] = SOIL_DEGRADED_ALERT
                          /\ \A f \in {"pH", "nitrogen", "phosphorus", "potassium"} :
                                /\ body.current[f] \in Nat
                                /\ body.prediction[f] \in Nat
                                /\ body.prediction.trend_analysis[f]
                                       \in {"ascending", "descending", "stable"}
                                /\ body.nutrient_levels[f] \in {"low", "optimal", "high"}
                          /\ Len(body.recommendations) >= 1
                     ELSE /\ body.alerts[1] = WEATHER_DEGRADED_ALERT
                          /\ body.current.temperature \in Nat
                          /\ body.current.humidity \in Nat
                          /\ body.prediction.next_temperature \in Nat
                          /\ body.prediction.next_humidity \in Nat
                          /\ body.prediction.trend \in {"ascending", "descending", "stable"}
                          /\ Len(body.forecast) >= 1

\* C2 witness: the rule engine of a soil request threw after the inference call, and
\* the request was answered with the fallback and status 200.
C2Witness ==
    /\ done # Null
    /\ Returned.route = "soil"
    /\ Returned.cause = "fault:rules"
    /\ Returned.how = "fallback"
    /\ Returned.resp[1].status = 200
    /\ Returned.resp[1].body.alerts = <<SOIL_DEGRADED_ALERT>>

\* C3: get(k) returns the data of the latest set(k, ..) iff the entry is present and
\* now - timestamp <= ttl, else null; a get of a present, expired entry removes it;
\* has(k) is true under the same condition; a get right after set(k, v, ttl) gives v.
C3GetSemantics ==
    [][LET k == lastOp'.key
           present == k \in DOMAIN cache
           valid == IF present THEN now - cache[k].timestamp <= cache[k].ttl ELSE FALSE
       IN  /\ lastOp'.op = "get" =>
                 /\ valid => (k \in DOMAIN latest /\ lastOp'.ret = Some(latest[k].data))
                 /\ ~valid => lastOp'.ret = Null
                 /\ (present /\ ~valid) => k \notin DOMAIN cache'
                 /\ valid => cache' = cache
                 /\ (lastOp.op = "set" /\ lastOp.key = k) => valid
           /\ lastOp'.op = "has" => lastOp'.ret = valid
      ]_vars

\* C3 witness: a key was set, the clock passed its ttl, and the get that followed
\* returned null and left the key out of the store.
C3Witness ==
    /\ lastOp.op = "get"
    /\ lastOp.ret = Null
    /\ lastOp.key \in DOMAIN latest
    /\ lastOp.key \notin DOMAIN cache
    /\ now - latest[lastOp.key].timestamp > latest[lastOp.key].ttl

\* The key and the TTL of a domain (CACHE_KEYS, CACHE_TTL).
KeyOf(route) == IF route = "soil" THEN SOIL_DATA ELSE WEATHER_DATA
TtlOf(route) == IF route = "soil" THEN CACHE_TTL_SOIL ELSE CACHE_TTL_WEATHER

\* C4: a request that ran the pipeline of its domain has stored the snapshot it
\* returns under the key of the domain, with the TTL of the domain.
C4StoresWhatItReturns ==
    (done # Null /\ Returned.kind = "route" /\ Returned.how \in {"pipeline", "mlCatch"}) =>
        /\ KeyOf(Returned.route) \in DOMAIN cache
        /\ cache[KeyOf(Returned.route)] =
               NewEntry(Returned.resp[1].body, Returned.at, TtlOf(Returned.route))

\* C5: two requests of the same domain that return one after the other within the TTL
\* of the domain, neither of them with the fallback, return the same snapshot.
C5SameSnapshotWithinTtl ==
    [][(/\ done # Null
        /\ done' # Null
        /\ done[1].kind = "route"
        /\ done'[1].kind = "route"
        /\ done'[1].route = done[1].route
        /\ done[1].how # "fallback"
        /\ done'[1].how # "fallback"
        /\ done'[1].at - done[1].at <= TtlOf(done[1].route))
       => done'[1].resp[1].body = done[1].resp[1].body]_vars

\* C6: a soil request answered from the cache returns the stored data, leaves the
\* store as it was (timestamp and ttl of the entry included), has prepared no input and
\* made no inference request; the entry it read is at most CACHE_TTL.SOIL old and was
\* stored with CACHE_TTL.SOIL.
C6HitLeavesEntry ==
    [][(done' # Null /\ done'[1].how = "hit") =>
          /\ SOIL_DATA \in DOMAIN cache
          /\ cache' = cache
          /\ done'[1].resp[1] = JsonResponse(cache[SOIL_DATA].data, 200)
          /\ done'[1].input = <<>>
          /\ done'[1].sent = <<>>
          /\ done'[1].gw = Null
          /\ pc'[done'[1].r] = "idle"
          /\ cache[SOIL_DATA].ttl = CACHE_TTL_SOIL
          /\ now - cache[SOIL_DATA].timestamp <= CACHE_TTL_SOIL
      ]_vars

\* C6 witness: a soil request was answered from the cache exactly CACHE_TTL.SOIL after
\* the entry was written, and the entry still carries the time of its writing.
C6Witness ==
    /\ done # Null
    /\ Returned.how = "hit"
    /\ SOIL_DATA \in DOMAIN cache
    /\ cache[SOIL_DATA].timestamp = 0
    /\ Returned.at = CACHE_TTL_SOIL
    /\ Returned.resp[1].body = cache[SOIL_DATA].data

\* C7: every call that has started returns.
C7Terminates == \A r \in Req : (pc[r] # "idle") ~> (pc[r] = "idle")

\* C8: a call of predict*Conditions makes at most one request to the endpoint; after a
\* failed call the fallback is computed from the input already prepared; a soil request
\* makes exactly one request on a cache miss and none on a hit.
C8AtMostOneRequest ==
    done # Null =>
        /\ Len(Returned.sent) <= 1
        /\ (Returned.kind = "route" /\ Returned.route = "soil") =>
              Len(Returned.sent) = (IF Returned.how = "hit" THEN 0 ELSE 1)
        /\ (InferenceFailed /\ Len(Returned.input) = InputLenOf(Returned.route)) =>
              LET input == Returned.input
                  result == Returned.gw[1].value[1]
                  last == Len(input)
              IN  IF Returned.route = "soil"
                  THEN input[last - 3] # 0 => Abs(result.pH - input[last - 3]) <= 1000
                  ELSE input[last - 1] # 0 =>
                           Abs(result.next_temperature - input[last - 1]) <= 10000

\* C8 witness: the endpoint answered a soil request's only inference request with a
\* non-2xx status.
C8Witness ==
    /\ done # Null
    /\ Returned.kind = "route"
    /\ Returned.route = "soil"
    /\ Returned.outcome # Null
    /\ Returned.outcome[1].kind = "http"
    /\ Returned.sent = <<[path |-> "/predict/suelo", len |-> SOIL_INPUT_LEN]>>

\* C9: every call of predict*Conditions, whatever the length of its input, makes a
\* request to the endpoint, and the request carries 48 (weather) or 96 (soil) values.
C9AlwaysEmitsInvariantLength ==
    (done # Null /\ Returned.gw # Null) =>
        /\ Len(Returned.sent) = 1
        /\ Returned.sent[1].len = InputLenOf(Returned.route)

\* The value a reading contributes for a field: its number, or the default when the
\* field is 0, missing or not numeric.
FieldOrDefault(x, default) ==
    IF x.t \in {"undefined", "null", "text"} THEN default
    ELSE IF x.v = 0 THEN default
    ELSE x.v

\* C10: prepareSoilDataForML returns 96 values and prepareWeatherDataForML 48: position
\* by position, the readings (the last 24 if there are more, oldest first) with the
\* fields in order and a default for a field that is 0, missing or not numeric, then
\* the defaults repeated.
C10PreparedInput ==
    prepPc \in {"soil", "weather"} =>
        LET fields == IF prepPc = "soil" THEN SoilFields ELSE WeatherFields
            defaults == IF prepPc = "soil"
                        THEN <<DEFAULT_PH, DEFAULT_NITROGEN, DEFAULT_PHOSPHORUS,
                               DEFAULT_POTASSIUM>>
                        ELSE <<DEFAULT_TEMPERATURE, DEFAULT_HUMIDITY>>
            width == Len(fields)
            n == Len(prepIn)
            used == IF n < TIMESTEPS THEN n ELSE TIMESTEPS
            skipped == n - used
        IN  /\ Len(prepOut) = width * TIMESTEPS
            /\ \A p \in 1 .. (width * TIMESTEPS) :
                  LET i == ((p - 1) \div width) + 1
                      j == ((p - 1) % width) + 1
                  IN  prepOut[p] =
                          IF i <= used
                          THEN FieldOrDefault(prepIn[skipped + i][fields[j]], defaults[j])
                          ELSE defaults[j]

\* C10 witness: a soil history of 26 readings whose third reading has a pH that is no
\* number: the output starts with the default pH, then the rest of reading 3.
C10Witness ==
    /\ prepPc = "soil"
    /\ Len(prepIn) = TIMESTEPS + 2
    /\ prepIn[3].pH.t = "text"
    /\ Len(prepOut) = SOIL_INPUT_LEN
    /\ prepOut[1] = DEFAULT_PH
    /\ prepOut[2] = 30002
    /\ prepOut[5] = 40001

\* C11: determineTrend(current, predicted) is ascending iff predicted - current is
\* above 5 % of |current|, descending iff it is below minus that, and stable otherwise.
C11TrendByRelativeThreshold ==
    prepPc = "determineTrend" =>
        LET delta == prepIn.predicted - prepIn.current
            magnitude == IF prepIn.current < 0 THEN -prepIn.current ELSE prepIn.current
        IN  /\ (prepOut = "ascending") <=> (100 * delta > 5 * magnitude)
            /\ (prepOut = "descending") <=> (100 * delta < -(5 * magnitude))
            /\ (prepOut = "stable") <=>
                   (100 * delta <= 5 * magnitude /\ 100 * delta >= -(5 * magnitude))

\* C11 witness: a negative current value and a difference exactly equal to the
\* threshold: stable.
C11Witness ==
    /\ prepPc = "determineTrend"
    /\ prepIn.current = -200000
    /\ prepIn.predicted = -190000
    /\ prepOut = "stable"

\* C12: every trend label of a returned prediction is determineTrend of the current
\* and the predicted value of its variable: the label of the gateway's weather result
\* against the last temperature of its input, the label in a weather snapshot against
\* the snapshot's current temperature, and the four labels of a soil snapshot.
C12TrendLabelsAreCanonical ==
    done # Null =>
        /\ (/\ Returned.gw # Null
            /\ Returned.route = "weather"
            /\ Len(Returned.input) = WEATHER_INPUT_LEN) =>
              LET result == Returned.gw[1].value[1]
                  currentTemp == Returned.input[Len(Returned.input) - 1]
              IN  result.trend = determineTrend(currentTemp, result.next_temperature)
        /\ (Returned.kind = "route" /\ Returned.route = "weather") =>
              LET body == Returned.resp[1].body
              IN  body.prediction.trend =
                      determineTrend(body.current.temperature,
                                     body.prediction.next_temperature)
        /\ (Returned.kind = "route" /\ Returned.route = "soil") =>
              LET body == Returned.resp[1].body
              IN  \A f \in {"pH", "nitrogen", "phosphorus", "potassium"} :
                      body.prediction.trend_analysis[f] =
                          determineTrend(body.current[f], body.prediction[f])

\* C13: the levels of a soil snapshot are threshold classifications with strict
\* bounds: pH is low exactly below 6.0 and high exactly above 8.0; nitrogen,
\* phosphorus and potassium are low exactly below 50, 30 and 40 and high exactly
\* above 100, 60 and 80; every other value, the bounds included, is optimal, so
\* each value has exactly one level.
C13LevelOf(value, lowBelow, highAbove) ==
    CASE value < lowBelow -> "low"
      [] value > highAbove -> "high"
      [] OTHER -> "optimal"

C13LevelsByStrictBounds ==
    prepPc = "rules" =>
        LET current == prepIn.soil
            levels == prepOut.nutrient_levels
        IN  /\ levels.pH = C13LevelOf(current.pH, 60000, 80000)
            /\ levels.nitrogen = C13LevelOf(current.nitrogen, 500000, 1000000)
            /\ levels.phosphorus = C13LevelOf(current.phosphorus, 300000, 600000)
            /\ levels.potassium = C13LevelOf(current.potassium, 400000, 800000)
            /\ \A f \in DOMAIN levels : levels[f] \in {"low", "optimal", "high"}

\* C13 witness: pH 6.0 and nitrogen 100 sit on a bound and are classified optimal
\* while potassium 80.001 is classified high.
C13Witness ==
    /\ prepPc = "rules"
    /\ prepIn.soil.pH = 60000
    /\ prepIn.soil.nitrogen = 1000000
    /\ prepIn.soil.potassium = 800010
    /\ prepOut.nutrient_levels.pH = "optimal"
    /\ prepOut.nutrient_levels.nitrogen = "optimal"
    /\ prepOut.nutrient_levels.potassium = "high"

\* The end-to-end scenario of C14: current soil values pH 7.2, N 45, P 23, K 13 and
\* a predicted potassium of 15, after the soil rules have been applied.
C14Scenario ==
    /\ prepPc = "rules"
    /\ prepIn.soil.pH = 72000
    /\ prepIn.soil.nitrogen = 450000
    /\ prepIn.soil.phosphorus = 230000
    /\ prepIn.soil.potassium = 130000
    /\ prepIn.mlPrediction.potassium = 150000

C14HasAlert(message) == \E i \in DOMAIN prepOut.alerts : prepOut.alerts[i] = message

\* C14 as stated: in the scenario pH, nitrogen and phosphorus are optimal and
\* potassium is low, the alerts include the potassium message and the potassium
\* trend is ascending.
C14ScenarioAsStated ==
    C14Scenario =>
        /\ prepOut.nutrient_levels =
               [pH |-> "optimal", nitrogen |-> "optimal", phosphorus |-> "optimal",
                potassium |-> "low"]
        /\ C14HasAlert(ALERT_POTASSIUM)
        /\ prepOut.prediction.trend_analysis.potassium = "ascending"

\* C14 amended: in the scenario only pH is optimal; nitrogen 45, phosphorus 23 and
\* potassium 13 are all low (below 50, 30 and 40), the alerts include the nitrogen,
\* phosphorus and potassium messages, and the potassium trend is ascending.
C14ScenarioLevels ==
    C14Scenario =>
        /\ prepOut.nutrient_levels =
               [pH |-> "optimal", nitrogen |-> "low", phosphorus |-> "low",
                potassium |-> "low"]
        /\ C14HasAlert(ALERT_NITROGEN)
        /\ C14HasAlert(ALERT_PHOSPHORUS)
        /\ C14HasAlert(ALERT_POTASSIUM)
        /\ prepOut.prediction.trend_analysis.potassium = "ascending"

\* C14 witness: the scenario has been evaluated and reports the potassium alert.
C14Witness ==
    /\ C14Scenario
    /\ C14HasAlert(ALERT_POTASSIUM)
    /\ prepOut.prediction.potassium - prepOut.current.potassium = 20000

\* The recommendation rules whose condition holds for the evaluated soil input.
C15RulesFired ==
    {f \in {"nitrogen", "phosphorus", "potassium", "pH"} :
        prepOut.nutrient_levels[f] = "low"}
    \cup (IF prepIn.soil.organic_matter < 30000 THEN {"organic_matter"} ELSE {})

\* C15: the recommendations are never empty; the optimal-conditions message is in
\* the list exactly when no recommendation rule fired, and it is then the whole
\* list; in particular all levels optimal with organic matter of at least 3.0
\* gives exactly that message.
C15RecommendationsNeverEmpty ==
    prepPc = "rules" =>
        LET recs == prepOut.recommendations
            optimalPresent == \E i \in DOMAIN recs : recs[i] = REC_OPTIMAL
        IN  /\ Len(recs) >= 1
            /\ optimalPresent <=> (C15RulesFired = {})
            /\ optimalPresent => recs = <<REC_OPTIMAL>>
            /\ (/\ \A f \in DOMAIN prepOut.nutrient_levels :
                       prepOut.nutrient_levels[f] = "optimal"
                /\ prepIn.soil.organic_matter >= 30000) => recs = <<REC_OPTIMAL>>

\* C15 witness: every level is optimal, organic matter is exactly 3.0 and the
\* recommendations are the single optimal-conditions message.
C15Witness ==
    /\ prepPc = "rules"
    /\ \A f \in DOMAIN prepOut.nutrient_levels : prepOut.nutrient_levels[f] = "optimal"
    /\ prepIn.soil.organic_matter = 30000
    /\ prepOut.recommendations = <<REC_OPTIMAL>>

\* The priority of an alert message: pH, nitrogen, phosphorus, potassium, moisture.
C16Priority(message) ==
    CASE message \in {ALERT_PH_LOW, ALERT_PH_HIGH} -> 1
      [] message = ALERT_NITROGEN -> 2
      [] message = ALERT_PHOSPHORUS -> 3
      [] message = ALERT_POTASSIUM -> 4
      [] message = ALERT_MOISTURE -> 5
      [] OTHER -> 0

\* The condition of an alert message on the evaluated soil input.
C16Condition(message) ==
    CASE message = ALERT_PH_LOW -> prepOut.nutrient_levels.pH = "low"
      [] message = ALERT_PH_HIGH -> prepOut.nutrient_levels.pH = "high"
      [] message = ALERT_NITROGEN -> prepOut.nutrient_levels.nitrogen = "low"
      [] message = ALERT_PHOSPHORUS -> prepOut.nutrient_levels.phosphorus = "low"
      [] message = ALERT_POTASSIUM -> prepOut.nutrient_levels.potassium = "low"
      [] message = ALERT_MOISTURE -> prepIn.soil.moisture < 400000
      [] OTHER -> FALSE

\* C16: the alerts are in strictly increasing priority pH, nitrogen, phosphorus,
\* potassium, moisture (so at most one pH message and no message twice), a message
\* is in the list exactly when its own condition holds, and the list is empty when
\* no condition holds.
C16AlertsOrderedAndIndependent ==
    prepPc = "rules" =>
        LET alerts == prepOut.alerts
        IN  /\ \A i, j \in DOMAIN alerts :
                   i < j => C16Priority(alerts[i]) < C16Priority(alerts[j])
            /\ \A message \in {ALERT_PH_LOW, ALERT_PH_HIGH, ALERT_NITROGEN,
                                ALERT_PHOSPHORUS, ALERT_POTASSIUM, ALERT_MOISTURE} :
                   (\E i \in DOMAIN alerts : alerts[i] = message) <=> C16Condition(message)
            /\ \A i \in DOMAIN alerts : C16Priority(alerts[i]) >= 1

\* C16 witness: an acid soil deficient in all three nutrients and dry reports all
\* five messages together, in priority order.
C16Witness ==
    /\ prepPc = "rules"
    /\ prepIn.soil.moisture < 400000
    /\ prepOut.alerts = <<ALERT_PH_LOW, ALERT_NITROGEN, ALERT_PHOSPHORUS,
                          ALERT_POTASSIUM, ALERT_MOISTURE>>

\* The priority the alerts use, applied to the recommendation messages: pH,
\* nitrogen, phosphorus, potassium, organic matter.
C17Priority(message) ==
    CASE message = REC_PH -> 1
      [] message = REC_NITROGEN -> 2
      [] message = REC_PHOSPHORUS -> 3
      [] message = REC_POTASSIUM -> 4
      [] message = REC_ORGANIC -> 5
      [] OTHER -> 0

\* C17: the recommendations are appended in the priority order of the alerts, the
\* pH recommendation first, then nitrogen, phosphorus, potassium, and the
\* organic-matter recommendation last.
C17RecommendationsInAlertOrder ==
    prepPc = "rules" =>
        LET recs == prepOut.recommendations
        IN  \A i, j \in DOMAIN recs :
                i < j => C17Priority(recs[i]) < C17Priority(recs[j])

\* C18: every confidence handed back is a scalar in [0, 1]: the confidence of a
\* result the gateway resolves with, and the confidence of the prediction in every
\* snapshot the weather and soil routes respond with.
C18ConfidenceInUnitInterval ==
    done # Null =>
        /\ (Returned.gw # Null /\ Returned.gw[1].settled = "resolved") =>
              LET result == Returned.gw[1].value[1]
              IN  result.confidence >= 0 /\ result.confidence <= 10000
        /\ Returned.kind = "route" =>
              LET prediction == Returned.resp[1].body.prediction
              IN  prediction.confidence >= 0 /\ prediction.confidence <= 10000

\* C19: set(k, v2, ttl2) on a key that already holds an entry, valid or expired,
\* leaves under k exactly {data v2, timestamp now, ttl ttl2} and every other key as
\* it was; a later get(k) of the stored entry answers by the time and ttl of that
\* last write alone: v2 while now - write time <= ttl2, null afterwards.
C19SetReplacesWhole ==
    [][LET k == lastOp'.key
       IN  /\ (lastOp'.op = "set" /\ k \in DOMAIN cache) =>
                 /\ cache'[k] = [data |-> lastOp'.data, timestamp |-> now,
                                 ttl |-> lastOp'.ttl]
                 /\ DOMAIN cache' = DOMAIN cache
                 /\ \A x \in DOMAIN cache \ {k} : cache'[x] = cache[x]
                 /\ latest'[k] = cache'[k]
           /\ (lastOp'.op = "get" /\ k \in DOMAIN cache) =>
                 /\ cache[k] = latest[k]
                 /\ lastOp'.ret = IF now - latest[k].timestamp <= latest[k].ttl
                                   THEN Some(latest[k].data) ELSE Null
      ]_vars

\* C19 witness: a set has just replaced an entry that was still valid by one with
\* another value, a later timestamp and a shorter ttl.
C19Witness ==
    /\ lastOp.op = "set"
    /\ lastOp.replaced # Null
    /\ now - lastOp.replaced[1].timestamp <= lastOp.replaced[1].ttl
    /\ lastOp.replaced[1].data # lastOp.data
    /\ lastOp.replaced[1].timestamp < now
    /\ lastOp.replaced[1].ttl > lastOp.ttl
    /\ cache[lastOp.key] = [data |-> lastOp.data, timestamp |-> now, ttl |-> lastOp.ttl]

\* C20: in every cache state and at every clock value has(k) returns true exactly
\* when get(k) called in that state would return a value; it returns false for an
\* entry that is still in the store but expired, and it evicts that entry as get does.
C20HasIsGetNotNull ==
    [][lastOp'.op = "has" =>
          LET k == lastOp'.key
              stale == IF k \in DOMAIN cache
                       THEN now - cache[k].timestamp > cache[k].ttl ELSE FALSE
          IN  /\ lastOp'.ret \in BOOLEAN
              /\ lastOp'.ret <=> (CacheGetResult(cache, k, now) # Null)
              /\ lastOp'.ret <=> (k \in DOMAIN cache /\ ~stale)
              /\ stale => (~lastOp'.ret /\ k \notin DOMAIN cache')
              /\ cache' = CacheGetStore(cache, k, now)
              /\ ~stale => cache' = cache
      ]_vars

\* C20 witness: has was called on a key whose entry was in the store but expired;
\* it returned false and the entry is gone.
C20Witness ==
    /\ lastOp.op = "has"
    /\ lastOp.present
    /\ lastOp.ret = FALSE
    /\ lastOp.key \notin DOMAIN cache
    /\ now - latest[lastOp.key].timestamp > latest[lastOp.key].ttl

\* C21: set(A, ..), get(A), has(A) and delete(A) leave every other key B as it was:
\* B is in the store after the call exactly if it was before, with the same data,
\* write timestamp and ttl, whether A's entry was absent, valid or expired.
C21OtherKeysUntouched ==
    [][lastOp'.op \in {"set", "get", "has", "delete"} =>
          \A B \in CacheKeys \ {lastOp'.key} :
              /\ (B \in DOMAIN cache') <=> (B \in DOMAIN cache)
              /\ B \in DOMAIN cache => cache'[B] = cache[B]
      ]_vars

\* C21 witness: get(A) has just evicted A's expired entry while the other key
\* still holds an entry that is itself expired, with its old timestamp.
C21Witness ==
    /\ lastOp.op = "get"
    /\ lastOp.ret = Null
    /\ lastOp.key \in DOMAIN latest
    /\ lastOp.key \notin DOMAIN cache
    /\ \E B \in DOMAIN cache :
           /\ B # lastOp.key
           /\ now - cache[B].timestamp > cache[B].ttl
           /\ cache[B] = latest[B]

\* C22: cleanup removes exactly the entries with now - timestamp > ttl, keeps every
\* other entry unchanged and returns the number removed; and an entry that has
\* expired does not stay in the store: unless the sweep has been stopped, the key
\* is eventually absent or holds an entry that is not expired (a later write).
C22SweepEvictsExpired ==
    /\ [][lastOp'.op = "cleanup" =>
             LET expired == {k \in DOMAIN cache : now - cache[k].timestamp > cache[k].ttl}
             IN  /\ DOMAIN cache' = DOMAIN cache \ expired
                 /\ \A k \in DOMAIN cache' : cache'[k] = cache[k]
                 /\ lastOp'.ret = Cardinality(expired)
         ]_vars
    /\ \A k \in CacheKeys :
           (k \in DOMAIN cache /\ now - cache[k].timestamp > cache[k].ttl)
           ~> \/ k \notin DOMAIN cache
              \/ now - cache[k].timestamp <= cache[k].ttl
              \/ timers = 0

\* C22 witness: the interval timer has swept both entries out of the store after
\* they expired, neither having been read since it was written.
C22Witness ==
    /\ lastOp.op = "cleanup"
    /\ lastOp.timer
    /\ lastOp.ret = 2
    /\ cache = EmptyMap
    /\ \A k \in CacheKeys :
           k \in DOMAIN latest /\ now - latest[k].timestamp > latest[k].ttl

\* C23: the runtime never holds more than one sweep timer for the cache, and it
\* holds one exactly while cleanupInterval is set; stopCleanup leaves no timer and
\* a null cleanupInterval, nothing sets it again, so no sweep runs after it; a
\* second stopCleanup changes nothing.
C23StopCleanupLeavesNoTimer ==
    /\ [](timers <= 1 /\ (cleanupInterval <=> timers = 1))
    /\ [][
          /\ lastOp'.op = "stopCleanup" =>
                /\ ~cleanupInterval'
                /\ timers' = 0
                /\ cache' = cache
                /\ (~cleanupInterval) => (timers' = timers)
          /\ (~cleanupInterval) => ((~cleanupInterval') /\ timers' = 0)
          /\ (lastOp'.op = "cleanup" /\ lastOp'.timer) => cleanupInterval
         ]_vars

\* C23 witness: stopCleanup has been called a second time, with no timer held, an
\* expired entry is still in the store and no timer is left.
C23Witness ==
    /\ lastOp.op = "stopCleanup"
    /\ ~lastOp.held
    /\ ~cleanupInterval
    /\ timers = 0
    /\ \E k \in DOMAIN cache : now - cache[k].timestamp > cache[k].ttl

\* The valid range of the value at position i (1-based) of an NPK series, whose
\* values come in the order pH, nitrogen, phosphorus, potassium.
C24InRange(field, value) ==
    CASE field = "pH" -> value >= 55000 /\ value <= 85000
      [] field = "nitrogen" -> value >= 200000 /\ value <= 800000
      [] field = "phosphorus" -> value >= 100000 /\ value <= 400000
      [] field = "potassium" -> value >= 80000 /\ value <= 250000

C24FieldAt(i) == <<"pH", "nitrogen", "phosphorus", "potassium">>[((i - 1) % 4) + 1]

\* C24: every value the NPK simulator produces, for one reading and for each of the
\* 96 values of a day, is in its range after the rounding to one decimal: pH in
\* [5.5, 8.5], nitrogen in [20, 80], phosphorus in [10, 40], potassium in [8, 25].
C24SimulatorValuesInRange ==
    /\ prepPc = "calculateNPKFromWeather" =>
          \A f \in DOMAIN prepOut : C24InRange(f, prepOut[f])
    /\ prepPc = "generate24HourNPKData" =>
          /\ Len(prepOut) = 4 * TIMESTEPS
          /\ \A i \in DOMAIN prepOut : C24InRange(C24FieldAt(i), prepOut[i])

\* C24 witness: a day generated from a temperature of -100 degrees and a humidity
\* of 1000 percent has its pH and potassium held at the upper limit and its
\* phosphorus at the lower one.
C24Witness ==
    /\ prepPc = "generate24HourNPKData"
    /\ prepIn.weather.temperature = -1000000
    /\ prepIn.weather.humidity = 10000000
    /\ prepOut[93] = 85000
    /\ prepOut[95] = 100000
    /\ prepOut[96] = 250000

\* C25: the synthetic 24-point weather history holds no out-of-domain value: every
\* humidity in it is within 0 and 100 percent, whatever the current observation
\* and the random jitter.
C25HistoryInDomain ==
    prepPc = "generateSimulatedHistory" =>
        /\ Len(prepOut) = TIMESTEPS
        /\ \A i \in DOMAIN prepOut :
               prepOut[i].humidity >= 0 /\ prepOut[i].humidity <= 1000000

\* C26: when soil requests overlap, each one that missed the cache has made exactly
\* one inference request when it returns, and unless it ends in the static fallback
\* it writes the cache; in every step the entry under the soil key is left as it
\* was, removed, or replaced by the whole snapshot of the request returning in that
\* step, stamped now with CACHE_TTL.SOIL, so that after the last return the entry is
\* the snapshot of the request that wrote last.
C26EntryIsOneWholeSnapshot ==
    [][LET wrote == /\ done' # Null
                   /\ done'[1].route = "soil"
                   /\ done'[1].how \in {"pipeline", "mlCatch"}
       IN  /\ wrote =>
                 /\ Len(done'[1].sent) = 1
                 /\ SOIL_DATA \in DOMAIN cache'
                 /\ cache'[SOIL_DATA] =
                        [data |-> done'[1].resp[1].body, timestamp |-> now,
                         ttl |-> CACHE_TTL_SOIL]
           /\ (~wrote) =>
                 \/ SOIL_DATA \notin DOMAIN cache'
                 \/ /\ SOIL_DATA \in DOMAIN cache
                    /\ cache'[SOIL_DATA] = cache[SOIL_DATA]
      ]_vars

\* C26 witness: two soil requests missed the cache and ran their pipelines side by
\* side; the second has just returned and its snapshot is the entry, while the first
\* is still waiting for its own inference call, with other current values.
C26Witness ==
    /\ done # Null
    /\ Returned.r = 2
    /\ Returned.how = "pipeline"
    /\ pc[1] = "soilInfer"
    /\ Len(sent[1]) = 1
    /\ cache[SOIL_DATA].data = Returned.resp[1].body
    /\ loc[1][1] # cache[SOIL_DATA].data.current

\* C27: a soil request that ends in the static fallback writes nothing: the step in
\* which it returns leaves the whole store as it was, with no entry under the soil
\* key, and the request that follows is not answered from the cache.
C27FallbackNeverStored ==
    [][/\ (done' # Null /\ done'[1].route = "soil" /\ done'[1].how = "fallback") =>
             /\ cache' = cache
             /\ SOIL_DATA \notin DOMAIN cache'
       /\ (done # Null /\ done[1].route = "soil" /\ done[1].how = "fallback") =>
             ~(done' # Null /\ done'[1].how = "hit")
      ]_vars

\* C27 witness: a soil request whose inference call had been made ended in the
\* static fallback, and the store holds no soil entry.
C27Witness ==
    /\ done # Null
    /\ Returned.route = "soil"
    /\ Returned.how = "fallback"
    /\ Returned.cause = "fault:rules"
    /\ Len(Returned.sent) = 1
    /\ Returned.resp[1].body = SoilFallbackResponse
    /\ SOIL_DATA \notin DOMAIN cache

\* The soil entry in the store is a snapshot built on the gateway's local fallback
\* (confidence 0.6) and is still within CACHE_TTL.SOIL of its writing.
C28DegradedEntryValid ==
    /\ SOIL_DATA \in DOMAIN cache
    /\ cache[SOIL_DATA].data.prediction.confidence = FALLBACK_CONFIDENCE
    /\ now - cache[SOIL_DATA].timestamp <= CACHE_TTL_SOIL

\* C28: a soil snapshot built on the gateway's local fallback is stored like any
\* other, stamped now with CACHE_TTL.SOIL; while it is at most 30 minutes old no
\* soil request starts a pipeline, every soil request is answered with that snapshot
\* and makes no inference request.
C28DegradedSnapshotServed ==
    [][/\ (/\ done' # Null
           /\ done'[1].route = "soil"
           /\ done'[1].how = "pipeline"
           /\ done'[1].outcome[1].kind # "ok") =>
             /\ done'[1].resp[1].body.prediction.confidence = FALLBACK_CONFIDENCE
             /\ cache'[SOIL_DATA] =
                    [data |-> done'[1].resp[1].body, timestamp |-> now,
                     ttl |-> CACHE_TTL_SOIL]
       /\ C28DegradedEntryValid =>
             /\ \A r \in Req : pc'[r] \notin {"soilGen", "soilInfer"}
             /\ (done' # Null /\ done'[1].route = "soil") =>
                   /\ done'[1].how = "hit"
                   /\ done'[1].resp[1].body = cache[SOIL_DATA].data
                   /\ done'[1].sent = <<>>
                   /\ cache' = cache
      ]_vars

\* C28 witness: exactly 30 minutes after a snapshot built on the gateway's fallback
\* was stored, a soil request has been answered with it, without an inference
\* request.
C28Witness ==
    /\ done # Null
    /\ Returned.route = "soil"
    /\ Returned.how = "hit"
    /\ Returned.sent = <<>>
    /\ Returned.resp[1].body.prediction.confidence = FALLBACK_CONFIDENCE
    /\ SOIL_DATA \in DOMAIN cache
    /\ Returned.at - cache[SOIL_DATA].timestamp = CACHE_TTL_SOIL

\* C29: every soil snapshot returned, the static fallback included, agrees with the
\* engines: for pH, nitrogen, phosphorus and potassium the level is the
\* classification of the current value and the trend label is determineTrend of
\* the current and the predicted value.
C29SnapshotConsistentWithEngines ==
    (done # Null /\ Returned.kind = "route" /\ Returned.route = "soil") =>
        LET body == Returned.resp[1].body
        IN  /\ body.nutrient_levels = SoilNutrientLevels(body.current)
            /\ \A v \in {"pH", "nitrogen", "phosphorus", "potassium"} :
                   body.prediction.trend_analysis[v] =
                       determineTrend(body.current[v], body.prediction[v])

C30Has(list, message) == \E i \in DOMAIN list : list[i] = message

\* C30: in every soil snapshot built by the pipeline the current nitrogen,
\* phosphorus and potassium are within the simulator's limits [20, 80], [10, 40]
\* and [8, 25]; so the potassium level is low, none of the three levels is high,
\* the alerts contain the potassium message, the recommendations contain the
\* potassium recommendation and never the optimal-conditions message.
C30PipelineAlwaysLowPotassium ==
    (/\ done # Null
     /\ Returned.kind = "route"
     /\ Returned.route = "soil"
     /\ Returned.how \in {"pipeline", "mlCatch"}) =>
        LET body == Returned.resp[1].body
        IN  /\ body.current.nitrogen >= 200000 /\ body.current.nitrogen <= 800000
            /\ body.current.phosphorus >= 100000 /\ body.current.phosphorus <= 400000
            /\ body.current.potassium >= 80000 /\ body.current.potassium <= 250000
            /\ body.nutrient_levels.potassium = "low"
            /\ \A v \in {"nitrogen", "phosphorus", "potassium"} :
                   body.nutrient_levels[v] # "high"
            /\ C30Has(body.alerts, ALERT_POTASSIUM)
            /\ C30Has(body.recommendations, REC_POTASSIUM)
            /\ ~C30Has(body.recommendations, REC_OPTIMAL)

\* C30 witness: a snapshot built by the pipeline after a successful inference call
\* reports potassium low, with the potassium alert and recommendation.
C30Witness ==
    /\ done # Null
    /\ Returned.route = "soil"
    /\ Returned.how = "pipeline"
    /\ Returned.outcome[1].kind = "ok"
    /\ Returned.resp[1].body.current.potassium < 400000
    /\ Returned.resp[1].body.nutrient_levels.potassium = "low"
    /\ C30Has(Returned.resp[1].body.alerts, ALERT_POTASSIUM)
    /\ C30Has(Returned.resp[1].body.recommendations, REC_POTASSIUM)

====
